---- MODULE Spec2Model ----
(***************************************************************************)
(* Model of the chrony operator: the certificate store synchronizer and    *)
(* config renderer of src/src/chrony.py, the keychain of                   *)
(* src/src/keychain.py and the certificate lifecycle handlers of           *)
(* src/src/charm.py.                                                       *)
(*                                                                         *)
(* Text values (PEM blobs) are records [tag, subject, id, ws]: tag names   *)
(* the kind of blob, subject/id identify its content and ws says whether   *)
(* the text carries surrounding whitespace (str.strip() removes it).       *)
(* String-valued slots use the string None for Python's None.              *)
(***************************************************************************)
EXTENDS Integers, Sequences, FiniteSets, TLC

\* ---------------------------------------------------------------- bounds
MaxPairs == 2
MaxCsr == 2
MaxOpts == 2

\* ---------------------------------------------------------------- values
None == "None"
NoneText == [tag |-> "None", subject |-> "", id |-> 0, ws |-> FALSE]

Text(tag, subject, id, ws) == [tag |-> tag, subject |-> subject, id |-> id, ws |-> ws]

\* the empty text: "" in a slot, a file created or truncated and not written
EmptyText == Text("", "", 0, FALSE)

\* str.strip(): the surrounding whitespace goes, the content stays
Strip(t) == [t EXCEPT !.ws = FALSE]

\* Python truthiness of an optional text: None and "" are falsy
Truthy(t) == t.tag # "None" /\ t.tag # ""

TlsKeyPair(certificate, key) == [certificate |-> certificate, key |-> key]

\* a file of the certificates directory: CERTS_DIR / f"{idx:04}.{ext}"
CertsPath(idx, ext) == [idx |-> idx, ext |-> ext]

\* f"{idx:04}"
Pad4(idx) ==
    IF idx < 10 THEN "000" \o ToString(idx)
    ELSE IF idx < 100 THEN "00" \o ToString(idx)
    ELSE IF idx < 1000 THEN "0" \o ToString(idx)
    ELSE ToString(idx)

CERTS_DIR == "/etc/chrony/certs"

PathStr(p) == CERTS_DIR \o "/" \o Pad4(p.idx) \o "." \o p.ext

\* the order of pathlib paths NNNN.crt / NNNN.key under sorted()
PathLess(a, b) ==
    \/ a.idx < b.idx
    \/ a.idx = b.idx /\ a.ext = "crt" /\ b.ext = "key"

RECURSIVE Sorted(_)
Sorted(S) ==
    IF S = {} THEN <<>>
    ELSE LET m == CHOOSE x \in S : \A y \in S \ {x} : PathLess(x, y)
         IN <<m>> \o Sorted(S \ {m})

\* Chrony.batched(iterable, n)
RECURSIVE batched(_, _)
batched(s, n) ==
    IF Len(s) = 0 THEN <<>>
    ELSE IF Len(s) <= n THEN <<s>>
    ELSE <<SubSeq(s, 1, n)>> \o batched(SubSeq(s, n + 1, Len(s)), n)

\* Chrony._iter_certs_dir
_iter_certs_dir(dir) == DOMAIN dir

\* Chrony._read_certs_file
_read_certs_file(dir, path) == dir[path]

\* Chrony._write_certs_file
_write_certs_file(dir, path, content) ==
    [p \in (DOMAIN dir) \cup {path} |-> IF p = path THEN content ELSE dir[p]]

\* _unlink_certs_file leaving key files in place
_unlink_certs_file_KeepsKey(dir, path) ==
    IF path.ext = "key" THEN dir ELSE [p \in (DOMAIN dir) \ {path} |-> dir[p]]

\* Chrony._unlink_certs_file
_unlink_certs_file(dir, path) == [p \in (DOMAIN dir) \ {path} |-> dir[p]]

\* `for crt, key in self.batched(files, 2)` cannot unpack a batch of one file
UnpackFails(dir) ==
    LET batches == batched(Sorted(_iter_certs_dir(dir)), 2)
    IN \E i \in 1..Len(batches) : Len(batches[i]) # 2

\* Chrony.read_tls_key_pairs, where every batch unpacks
read_tls_key_pairs(dir) ==
    LET files == Sorted(_iter_certs_dir(dir))
        batches == batched(files, 2)
    IN [i \in 1..Len(batches) |->
            TlsKeyPair(_read_certs_file(dir, batches[i][1]),
                       _read_certs_file(dir, batches[i][2]))]

WriteEffect(path, content) == [op |-> "write", path |-> PathStr(path), content |-> content]
UnlinkEffect(path) == [op |-> "unlink", path |-> PathStr(path), content |-> NoneText]

Max(a, b) == IF a >= b THEN a ELSE b

\* for file in key_pair_files: self._unlink_certs_file(file)
RECURSIVE UnlinkAll(_, _)
UnlinkAll(dir, fs) ==
    IF Len(fs) = 0 THEN dir
    ELSE UnlinkAll(_unlink_certs_file(dir, Head(fs)), Tail(fs))

\* WriteStep with the key file rewritten only when the certificate file was
WriteStep_KeyFollowsCert(st, idx, batches, key_pairs) ==
    IF idx + 1 > Len(batches)
    THEN LET crt == CertsPath(idx, "crt")
             key == CertsPath(idx, "key")
             kp == key_pairs[idx + 1]
             d1 == _write_certs_file(st.dir, crt, kp.certificate)
             d2 == _write_certs_file(d1, key, kp.key)
         IN [dir |-> d2,
             effects |-> st.effects \o <<WriteEffect(crt, kp.certificate), WriteEffect(key, kp.key)>>]
    ELSE IF idx + 1 > Len(key_pairs)
    THEN LET fs == batches[idx + 1]
         IN [dir |-> UnlinkAll(st.dir, fs),
             effects |-> st.effects \o [i \in 1..Len(fs) |-> UnlinkEffect(fs[i])]]
    ELSE LET crt_file == batches[idx + 1][1]
             key_file == batches[idx + 1][2]
             kp == key_pairs[idx + 1]
             wcrt == _read_certs_file(st.dir, crt_file) # kp.certificate
             d1 == IF wcrt THEN _write_certs_file(st.dir, crt_file, kp.certificate) ELSE st.dir
             d2 == IF wcrt THEN _write_certs_file(d1, key_file, kp.key) ELSE d1
         IN [dir |-> d2,
             effects |-> st.effects
                 \o (IF wcrt THEN <<WriteEffect(crt_file, kp.certificate)>> ELSE <<>>)
                 \o (IF wcrt THEN <<WriteEffect(key_file, kp.key)>> ELSE <<>>)]

\* WriteStep rewriting both files of an existing position whatever they hold
WriteStep_AlwaysWrites(st, idx, batches, key_pairs) ==
    IF idx + 1 > Len(batches)
    THEN LET crt == CertsPath(idx, "crt")
             key == CertsPath(idx, "key")
             kp == key_pairs[idx + 1]
             d1 == _write_certs_file(st.dir, crt, kp.certificate)
             d2 == _write_certs_file(d1, key, kp.key)
         IN [dir |-> d2,
             effects |-> st.effects \o <<WriteEffect(crt, kp.certificate), WriteEffect(key, kp.key)>>]
    ELSE IF idx + 1 > Len(key_pairs)
    THEN LET fs == batches[idx + 1]
         IN [dir |-> UnlinkAll(st.dir, fs),
             effects |-> st.effects \o [i \in 1..Len(fs) |-> UnlinkEffect(fs[i])]]
    ELSE LET crt_file == batches[idx + 1][1]
             key_file == batches[idx + 1][2]
             kp == key_pairs[idx + 1]
             d1 == _write_certs_file(st.dir, crt_file, kp.certificate)
             d2 == _write_certs_file(d1, key_file, kp.key)
         IN [dir |-> d2,
             effects |-> st.effects
                 \o <<WriteEffect(crt_file, kp.certificate), WriteEffect(key_file, kp.key)>>]

\* one iteration of the loop of write_tls_key_pairs, at position idx (0-based);
\* st = [dir, effects] is the directory and the file operations done so far
WriteStep(st, idx, batches, key_pairs) ==
    IF idx + 1 > Len(batches)
    THEN \* key_pair_files is None: create the numbered pair
         LET crt == CertsPath(idx, "crt")
             key == CertsPath(idx, "key")
             kp == key_pairs[idx + 1]
             d1 == _write_certs_file(st.dir, crt, kp.certificate)
             d2 == _write_certs_file(d1, key, kp.key)
         IN [dir |-> d2,
             effects |-> st.effects \o <<WriteEffect(crt, kp.certificate), WriteEffect(key, kp.key)>>]
    ELSE IF idx + 1 > Len(key_pairs)
    THEN \* key_pair is None: unlink every file of the batch
         LET fs == batches[idx + 1]
         IN [dir |-> UnlinkAll(st.dir, fs),
             effects |-> st.effects \o [i \in 1..Len(fs) |-> UnlinkEffect(fs[i])]]
    ELSE LET crt_file == batches[idx + 1][1]
             key_file == batches[idx + 1][2]
             kp == key_pairs[idx + 1]
             wcrt == _read_certs_file(st.dir, crt_file) # kp.certificate
             d1 == IF wcrt THEN _write_certs_file(st.dir, crt_file, kp.certificate) ELSE st.dir
             wkey == _read_certs_file(d1, key_file) # kp.key
             d2 == IF wkey THEN _write_certs_file(d1, key_file, kp.key) ELSE d1
         IN [dir |-> d2,
             effects |-> st.effects
                 \o (IF wcrt THEN <<WriteEffect(crt_file, kp.certificate)>> ELSE <<>>)
                 \o (IF wkey THEN <<WriteEffect(key_file, kp.key)>> ELSE <<>>)]

RECURSIVE WriteLoop(_, _, _, _)
WriteLoop(st, idx, batches, key_pairs) ==
    IF idx >= Max(Len(batches), Len(key_pairs)) THEN st
    ELSE WriteLoop(WriteStep(st, idx, batches, key_pairs), idx + 1, batches, key_pairs)

\* Chrony.write_tls_key_pairs: the directory afterwards and the file
\* operations performed, in order
write_tls_key_pairs(dir, key_pairs) ==
    LET files == Sorted(_iter_certs_dir(dir))
    IN WriteLoop([dir |-> dir, effects |-> <<>>], 0, batched(files, 2), key_pairs)


\* ------------------------------------------------------- source grammar
NoPort == 0 - 1

\* one comma-separated entry of the "sources" setting: scheme://host[:port]
\* with its query options (name=value, in order); pad says whether the entry
\* text carries surrounding whitespace. The blank entry is what a trailing
\* comma or doubled comma leaves
Url(scheme, host, port) ==
    [scheme |-> scheme, host |-> host, port |-> port, query |-> <<>>, pad |-> FALSE]
UrlQuery(scheme, host, port, query) ==
    [scheme |-> scheme, host |-> host, port |-> port, query |-> query, pad |-> FALSE]
Option(name, value) == [name |-> name, value |-> value]
BlankUrl == Url("", "", NoPort)

\* the entry with whitespace around it, and url.strip()
Padded(url) == [url EXCEPT !.pad = TRUE]
StripUrl(url) == [url EXCEPT !.pad = FALSE]

\* _PoolOptions.model_fields, in declaration order
model_fields ==
    << [name |-> "minpoll", type |-> "int"],
       [name |-> "maxpoll", type |-> "int"],
       [name |-> "iburst", type |-> "bool"],
       [name |-> "burst", type |-> "bool"],
       [name |-> "key", type |-> "str"],
       [name |-> "nts", type |-> "bool"],
       [name |-> "certset", type |-> "str"],
       [name |-> "maxdelay", type |-> "float"],
       [name |-> "maxdelayratio", type |-> "float"],
       [name |-> "maxdelaydevratio", type |-> "float"],
       [name |-> "maxdelayquant", type |-> "float"],
       [name |-> "mindelay", type |-> "float"],
       [name |-> "asymmetry", type |-> "float"],
       [name |-> "offset", type |-> "float"],
       [name |-> "minsamples", type |-> "int"],
       [name |-> "maxsamples", type |-> "int"],
       [name |-> "filter", type |-> "int"],
       [name |-> "offline", type |-> "bool"],
       [name |-> "auto_offline", type |-> "bool"],
       [name |-> "prefer", type |-> "bool"],
       [name |-> "noselect", type |-> "bool"],
       [name |-> "trust", type |-> "bool"],
       [name |-> "require", type |-> "bool"],
       [name |-> "xleave", type |-> "bool"],
       [name |-> "polltarget", type |-> "int"],
       [name |-> "presend", type |-> "int"],
       [name |-> "minstratum", type |-> "int"],
       [name |-> "version", type |-> "int"],
       [name |-> "extfield", type |-> "str"],
       [name |-> "maxsources", type |-> "int"] >>

FieldNames == { model_fields[i].name : i \in 1..Len(model_fields) }
\* the declared type of each field
field_types ==
    [f \in FieldNames |->
        model_fields[CHOOSE i \in 1..Len(model_fields) : model_fields[i].name = f].type]
FieldTypeOf(f) == field_types[f]

\* the code points of a field name
Chars(f) ==
    CASE f = "minpoll" -> <<109, 105, 110, 112, 111, 108, 108>>
      [] f = "maxpoll" -> <<109, 97, 120, 112, 111, 108, 108>>
      [] f = "iburst" -> <<105, 98, 117, 114, 115, 116>>
      [] f = "burst" -> <<98, 117, 114, 115, 116>>
      [] f = "key" -> <<107, 101, 121>>
      [] f = "nts" -> <<110, 116, 115>>
      [] f = "certset" -> <<99, 101, 114, 116, 115, 101, 116>>
      [] f = "maxdelay" -> <<109, 97, 120, 100, 101, 108, 97, 121>>
      [] f = "maxdelayratio" -> <<109, 97, 120, 100, 101, 108, 97, 121, 114, 97, 116, 105, 111>>
      [] f = "maxdelaydevratio" -> <<109, 97, 120, 100, 101, 108, 97, 121, 100, 101, 118, 114, 97, 116, 105, 111>>
      [] f = "maxdelayquant" -> <<109, 97, 120, 100, 101, 108, 97, 121, 113, 117, 97, 110, 116>>
      [] f = "mindelay" -> <<109, 105, 110, 100, 101, 108, 97, 121>>
      [] f = "asymmetry" -> <<97, 115, 121, 109, 109, 101, 116, 114, 121>>
      [] f = "offset" -> <<111, 102, 102, 115, 101, 116>>
      [] f = "minsamples" -> <<109, 105, 110, 115, 97, 109, 112, 108, 101, 115>>
      [] f = "maxsamples" -> <<109, 97, 120, 115, 97, 109, 112, 108, 101, 115>>
      [] f = "filter" -> <<102, 105, 108, 116, 101, 114>>
      [] f = "offline" -> <<111, 102, 102, 108, 105, 110, 101>>
      [] f = "auto_offline" -> <<97, 117, 116, 111, 95, 111, 102, 102, 108, 105, 110, 101>>
      [] f = "prefer" -> <<112, 114, 101, 102, 101, 114>>
      [] f = "noselect" -> <<110, 111, 115, 101, 108, 101, 99, 116>>
      [] f = "trust" -> <<116, 114, 117, 115, 116>>
      [] f = "require" -> <<114, 101, 113, 117, 105, 114, 101>>
      [] f = "xleave" -> <<120, 108, 101, 97, 118, 101>>
      [] f = "polltarget" -> <<112, 111, 108, 108, 116, 97, 114, 103, 101, 116>>
      [] f = "presend" -> <<112, 114, 101, 115, 101, 110, 100>>
      [] f = "minstratum" -> <<109, 105, 110, 115, 116, 114, 97, 116, 117, 109>>
      [] f = "version" -> <<118, 101, 114, 115, 105, 111, 110>>
      [] f = "extfield" -> <<101, 120, 116, 102, 105, 101, 108, 100>>
      [] f = "maxsources" -> <<109, 97, 120, 115, 111, 117, 114, 99, 101, 115>>

\* Python's order of str: code point by code point, a proper prefix first
RECURSIVE SeqLess(_, _)
SeqLess(a, b) ==
    IF Len(b) = 0 THEN FALSE
    ELSE IF Len(a) = 0 THEN TRUE
    ELSE IF Head(a) # Head(b) THEN Head(a) < Head(b)
    ELSE SeqLess(Tail(a), Tail(b))

\* sorted(...) of a set of names: position k holds the name with k - 1 names before it
SortedNames(S) ==
    [k \in 1..Cardinality(S) |->
        CHOOSE f \in S :
            Cardinality({ g \in S : SeqLess(Chars(g), Chars(f)) }) = k - 1]

\* sorted(f for f in _PoolOptions.model_fields if f != "copy")
sorted_fields == SortedNames(FieldNames \ {"copy"})

\* a field value: t is its Python type (none, bool, int, float, str) and s its str()
Value(t, s) == [t |-> t, s |-> s]
NoneValue == Value("none", "None")
Invalid == Value("invalid", "")

\* the value a field has when the URL does not give it
Default(f) == IF FieldTypeOf(f) = "bool" THEN Value("bool", "False") ELSE NoneValue

\* ToBool keeping the literal as it is spelled
ToBool_KeepsSpelling(lit) ==
    IF lit \in {"true", "True", "TRUE", "1", "false", "False", "FALSE", "0"}
    THEN Value("str", lit)
    ELSE Invalid

\* pydantic's conversion of a query string to bool
ToBool(lit) ==
    IF lit \in {"true", "True", "TRUE", "1"} THEN Value("bool", "True")
    ELSE IF lit \in {"false", "False", "FALSE", "0"} THEN Value("bool", "False")
    ELSE Invalid

\* pydantic's conversion of a query string to int
ToInt(lit) == IF lit \in {"0", "1", "10", "123"} THEN Value("int", lit) ELSE Invalid

\* pydantic's conversion of a query string to float, as str() prints it
ToFloat(lit) ==
    IF lit \in {"0", "1", "10", "123"} THEN Value("float", lit \o ".0")
    ELSE IF lit = "-0.1" THEN Value("float", "-0.1")
    ELSE Invalid

\* validation of one query value against the declared type of field f
Convert(f, lit) ==
    CASE FieldTypeOf(f) = "bool" -> ToBool(lit)
      [] FieldTypeOf(f) = "int" -> ToInt(lit)
      [] FieldTypeOf(f) = "float" -> ToFloat(lit)
      [] OTHER -> Value("str", lit)

\* dict(urllib.parse.parse_qsl(parsed.query)): the last value of a name wins
QueryNames(query) == { query[i].name : i \in 1..Len(query) }
QueryValue(query, name) ==
    query[CHOOSE i \in 1..Len(query) :
            /\ query[i].name = name
            /\ \A j \in (i + 1)..Len(query) : query[j].name # name].value

InvalidSource ==
    [ok |-> FALSE, kind |-> "", host |-> "", port |-> NoPort, options |-> <<>>,
     error |-> "ValueError"]

\* cls(host=..., port=..., **query) with a query name that is a keyword already
\* given: "got multiple values for keyword argument"
DuplicateKeyword == [InvalidSource EXCEPT !.error = "TypeError"]

\* cls(host=parsed.hostname, <port_field>=parsed.port, **query): pydantic
\* validation with extra="forbid"; the record keeps the fields that differ
\* from their defaults
NewSource(kind, port_field, url) ==
    LET names == QueryNames(url.query)
    IN IF "host" \in names \/ port_field \in names THEN DuplicateKeyword
       ELSE IF url.host = "" THEN InvalidSource
       ELSE IF \E n \in names : n \notin FieldNames THEN InvalidSource
       ELSE IF \E n \in names : Convert(n, QueryValue(url.query, n)) = Invalid THEN InvalidSource
       ELSE LET set == { n \in names : Convert(n, QueryValue(url.query, n)) # Default(n) }
            IN [ok |-> TRUE, kind |-> kind, host |-> url.host, port |-> url.port,
                options |-> [n \in set |-> Convert(n, QueryValue(url.query, n))],
                error |-> None]

\* _NtpSource.from_source_url
_NtpSource_from_source_url(url) ==
    IF url.scheme # "ntp" THEN InvalidSource
    ELSE NewSource("ntp", "port", url)

\* _NtsSource.from_source_url
_NtsSource_from_source_url(url) ==
    IF url.scheme # "nts" THEN InvalidSource
    ELSE NewSource("nts", "ntsport", url)

\* Chrony.parse_source_url
parse_source_url(url) ==
    IF url.pad THEN InvalidSource
    ELSE IF url.scheme = "ntp" THEN _NtpSource_from_source_url(url)
    ELSE IF url.scheme = "nts" THEN _NtsSource_from_source_url(url)
    ELSE InvalidSource

\* getattr(self, field)
FieldValue(s, f) == IF f \in DOMAIN s.options THEN s.options[f] ELSE Default(f)

\* " ".join(options), with a leading space when there is any option
RECURSIVE JoinOptions(_, _)
JoinOptions(s, fields) ==
    IF Len(fields) = 0 THEN ""
    ELSE LET f == Head(fields)
             value == FieldValue(s, f)
             rest == JoinOptions(s, Tail(fields))
         IN IF value = Value("bool", "True") THEN " " \o f \o rest
            ELSE IF value = NoneValue \/ value = Value("bool", "False") THEN rest
            ELSE " " \o f \o " " \o value.s \o rest

\* render_options walking the fields in declaration order
render_options_DeclarationOrder(s) ==
    JoinOptions(s, SelectSeq([i \in 1..Len(model_fields) |-> model_fields[i].name],
                             LAMBDA f : f \in DOMAIN s.options))

\* _PoolOptions.render_options, as the text appended to the directive; the
\* fields left at their default (None or False) add nothing and are passed over
render_options(s) ==
    JoinOptions(s, SelectSeq(sorted_fields, LAMBDA f : f \in DOMAIN s.options))

\* _NtpSource.render
_NtpSource_render(s) ==
    "pool " \o s.host
        \o (IF s.port # NoPort /\ s.port # 123 THEN " port " \o ToString(s.port) ELSE "")
        \o render_options(s)

\* _NtsSource.render
_NtsSource_render(s) ==
    "pool " \o s.host \o " nts"
        \o (IF s.port # NoPort /\ s.port # 4460 THEN " ntsport " \o ToString(s.port) ELSE "")
        \o render_options(s)

SourceRender(s) == IF s.kind = "ntp" THEN _NtpSource_render(s) ELSE _NtsSource_render(s)

\* -------------------------------------------------------- config renderer
\* a config text is the sequence of its lines
StaticLines ==
    << "bindcmdaddress 127.0.0.1",
       "driftfile /var/lib/chrony/chrony.drift",
       "ntsdumpdir /var/lib/chrony",
       "logdir /var/log/chrony",
       "maxupdateskew 100.0",
       "rtcsync",
       "makestep 1 3",
       "leapsectz right/UTC",
       "allow 0.0.0.0/0",
       "allow ::/0" >>

CertLine(directive, idx, ext) == directive \o " " \o PathStr(CertsPath(idx, ext))

\* the ntsservercert / ntsserverkey lines of n key pairs, index order
CertsLines(n) ==
    [k \in 1..(2 * n) |->
        IF k % 2 = 1 THEN CertLine("ntsservercert", (k - 1) \div 2, "crt")
        ELSE CertLine("ntsserverkey", (k - 1) \div 2, "key")]

\* "\n\n".join(part for part in parts if part)
RECURSIVE JoinParts(_)
JoinParts(parts) ==
    IF Len(parts) = 0 THEN <<>>
    ELSE LET rest == JoinParts(Tail(parts))
         IN IF Len(Head(parts)) = 0 THEN rest
            ELSE IF Len(rest) = 0 THEN Head(parts)
            ELSE Head(parts) \o <<"">> \o rest

\* render joining all three sections, the empty ones too
render_DanglingSeparators(sources, tls_key_pairs) ==
    LET src == [i \in 1..Len(sources) |-> SourceRender(sources[i])]
        certs == CertsLines(Len(tls_key_pairs))
    IN src \o <<"">> \o certs \o <<"">> \o StaticLines

\* _ChronyConfig.render
render(sources, tls_key_pairs) ==
    LET src == [i \in 1..Len(sources) |-> SourceRender(sources[i])]
        certs == CertsLines(Len(tls_key_pairs))
    IN JoinParts(<<src, certs, StaticLines>>)

WriteConfigEffect == [op |-> "write_config", path |-> "/etc/chrony/chrony.conf", content |-> NoneText]
RestartEffect == [op |-> "restart", path |-> "", content |-> NoneText]

\* ApplyDiffers without the guard: every apply writes and restarts
ApplyDiffers_Always(current_config, current_certs, new_config, tls_key_pairs) == TRUE

\* ApplyDiffers comparing the config text only
ApplyDiffers_ConfigOnly(current_config, current_certs, new_config, tls_key_pairs) ==
    new_config # current_config

\* the condition of _ChronyConfig.apply under which it writes and restarts
ApplyDiffers(current_config, current_certs, new_config, tls_key_pairs) ==
    new_config # current_config \/ current_certs # tls_key_pairs

\* apply writing the config text before the certificate store
apply_ConfigFirst(w, sources, tls_key_pairs) ==
    LET current_config == w.config_file
        current_certs == read_tls_key_pairs(w.certs_dir)
        new_config == render(sources, tls_key_pairs)
    IN IF UnpackFails(w.certs_dir)
       THEN [w EXCEPT !.error = "ValueError"]
       ELSE IF ApplyDiffers(current_config, current_certs, new_config, tls_key_pairs)
       THEN LET wr == write_tls_key_pairs(w.certs_dir, tls_key_pairs)
            IN [w EXCEPT !.certs_dir = wr.dir,
                         !.config_file = new_config,
                         !.effects = w.effects \o <<WriteConfigEffect>> \o wr.effects
                                         \o <<RestartEffect>>]
       ELSE w

\* _ChronyConfig.apply on the disk state w = [certs_dir, config_file, effects]
apply(w, sources, tls_key_pairs) ==
    LET current_config == w.config_file
        current_certs == read_tls_key_pairs(w.certs_dir)
        new_config == render(sources, tls_key_pairs)
    IN IF UnpackFails(w.certs_dir)
       THEN [w EXCEPT !.error = "ValueError"]
       ELSE IF ApplyDiffers(current_config, current_certs, new_config, tls_key_pairs)
       THEN LET wr == write_tls_key_pairs(w.certs_dir, tls_key_pairs)
            IN [w EXCEPT !.certs_dir = wr.dir,
                         !.config_file = new_config,
                         !.effects = w.effects \o wr.effects \o <<WriteConfigEffect, RestartEffect>>]
       ELSE w

\* --------------------------------------------------------------- keychain
EmptyKeychain ==
    [private_key |-> NoneText, server_name |-> None, csr |-> NoneText, chain |-> NoneText]

\* _get_file_content returning None for a file that exists and is empty
_get_file_content_EmptyIsNone(kc, filename) ==
    IF filename = "server_name"
    THEN (IF kc[filename] = "" THEN None ELSE kc[filename])
    ELSE (IF kc[filename] = EmptyText THEN NoneText ELSE kc[filename])

\* TlsKeychain._get_file_content: the text of the file, None when there is none
_get_file_content(kc, filename) == kc[filename]

\* TlsKeychain getters
get_private_key(kc) == _get_file_content(kc, "private_key")
get_server_name(kc) == _get_file_content(kc, "server_name")
get_csr(kc) == _get_file_content(kc, "csr")
get_chain(kc) == _get_file_content(kc, "chain")

\* TlsKeychain setters: write_text on the one file
set_private_key(kc, private_key) == [kc EXCEPT !.private_key = private_key]
set_server_name(kc, server_name) == [kc EXCEPT !.server_name = server_name]
set_csr(kc, csr) == [kc EXCEPT !.csr = csr]
set_chain(kc, chain) == [kc EXCEPT !.chain = chain]

\* get_key_pairs testing the private key only
get_key_pairs_WithoutChain(kc) ==
    IF Truthy(kc.private_key)
    THEN <<TlsKeyPair(kc.chain, kc.private_key)>>
    ELSE <<>>

\* TlsKeychain.get_key_pairs
get_key_pairs(kc) ==
    IF Truthy(kc.chain) /\ Truthy(kc.private_key)
    THEN <<TlsKeyPair(kc.chain, kc.private_key)>>
    ELSE <<>>

\* clear leaving the server-name file in place
clear_KeepsServerName(kc) == [kc EXCEPT !.chain = NoneText, !.csr = NoneText]

\* clear leaving chain.pem in place
clear_KeepsChain(kc) == [kc EXCEPT !.server_name = None, !.csr = NoneText]

\* clear removing private-key.pem as well
clear_RemovesPrivateKey(kc) ==
    [kc EXCEPT !.server_name = None, !.chain = NoneText, !.csr = NoneText,
               !.private_key = NoneText]

\* TlsKeychain.clear
clear(kc) == [kc EXCEPT !.server_name = None, !.chain = NoneText, !.csr = NoneText]


\* ------------------------------------------------------------ model sets
ServerNames == {"example.com", "example.net"}

SourceSettings ==
    { <<>>,
      <<Url("ntp", "example.com", NoPort)>>,
      <<Padded(Url("ntp", "example.com", NoPort)), BlankUrl, Padded(BlankUrl)>>,
      <<Url("ntp", "example.net", 123), Url("nts", "nts.example.com", 4461)>> }

SecretIds == {"secret:a", "secret:b"}

\* the "nts-certificates" setting, split on commas and stripped
NtsCertificatesSettings ==
    { <<>>, <<"secret:a", "", "secret:b">> }

\* contents a user secret can hold (fields cert and key)
SecretContents(id) ==
    IF id = "secret:a"
    THEN { [cert |-> Text("cert", id, v, FALSE), key |-> Text("key", id, v, FALSE)] : v \in 1..2 }
    ELSE { [cert |-> Text("cert", id, 1, FALSE), key |-> Text("key", id, 1, FALSE)] }

Configs ==
    [sources : SourceSettings,
     server_name : ServerNames \cup {None},
     nts_certificates : NtsCertificatesSettings]

\* ------------------------------------------------------------- variables
VARIABLES
    config,        \* charm configuration: sources, server-name, nts-certificates
    secrets,       \* content of the user secrets
    relation,      \* TRUE while the nts-certificates relation exists
    keychain,      \* TlsKeychain slots
    ca_csrs,       \* CSRs this unit has outstanding in the relation data
    ca_certs,      \* outstanding CSRs the CA has answered with a certificate
    next_id,       \* serial of the next generated CSR
    certs_dir,     \* /etc/chrony/certs: path -> content
    config_file,   \* /etc/chrony/chrony.conf, as lines
    port_4460,     \* TRUE while tcp/4460 is open
    unit_status,   \* the unit status collected at the end of the last hook
    last           \* what the last pass did

vars == <<config, secrets, relation, keychain, ca_csrs, ca_certs, next_id, certs_dir,
          config_file, port_4460, unit_status, last>>

\* ------------------------------------------------------------- the pass
\* A pass runs on w: the durable state plus the record of what the pass did.
NoRequests == <<>>
NoEffects == <<>>

Begin(event, chain) ==
    [keychain |-> keychain, ca_csrs |-> ca_csrs, ca_certs |-> ca_certs, next_id |-> next_id,
     certs_dir |-> certs_dir, config_file |-> config_file, port_4460 |-> port_4460,
     event |-> event, chain |-> chain, secret |-> "", error |-> None,
     renewed |-> FALSE, revoked |-> FALSE, applied |-> FALSE,
     requests |-> NoRequests, effects |-> NoEffects,
     sources |-> <<>>, pairs |-> <<>>]

\* tls_certificates.generate_csr: a request for the subject that differs from
\* every earlier one (serial id), PEM text with its trailing newline
generate_csr(subject, id) == Text("csr", subject, id, TRUE)

CreationRequest(csr) == [kind |-> "creation", csr |-> csr, old |-> NoneText]
RenewalRequest(old, csr) == [kind |-> "renewal", csr |-> csr, old |-> old]
RevocationRequest(csr) == [kind |-> "revocation", csr |-> csr, old |-> NoneText]

\* ChronyCharm._get_server_name
_get_server_name(cfg) == cfg.server_name

\* _renew_certificate issuing a creation request whatever the keychain holds
_renew_certificate_AlwaysCreates(w, cfg) ==
    LET new_csr == generate_csr(_get_server_name(cfg), w.next_id)
    IN [w EXCEPT
          !.renewed = TRUE,
          !.next_id = w.next_id + 1,
          !.requests = w.requests \o <<CreationRequest(new_csr)>>,
          !.ca_csrs = w.ca_csrs \cup {Strip(new_csr)},
          !.keychain = [w.keychain EXCEPT !.server_name = _get_server_name(cfg),
                                          !.csr = Strip(new_csr)]]

\* _renew_certificate dropping the stored chain with the old CSR
_renew_certificate_DropsChain(w, cfg) ==
    LET old_csr == w.keychain.csr
        new_csr == generate_csr(_get_server_name(cfg), w.next_id)
        creation == ~Truthy(old_csr)
    IN [w EXCEPT
          !.renewed = TRUE,
          !.next_id = w.next_id + 1,
          !.requests = w.requests \o
              <<IF creation THEN CreationRequest(new_csr) ELSE RenewalRequest(old_csr, new_csr)>>,
          !.ca_csrs = IF creation THEN w.ca_csrs \cup {Strip(new_csr)}
                      ELSE (w.ca_csrs \ {old_csr}) \cup {Strip(new_csr)},
          !.ca_certs = IF creation THEN w.ca_certs ELSE w.ca_certs \ {old_csr},
          !.keychain = [w.keychain EXCEPT !.server_name = _get_server_name(cfg),
                                          !.chain = NoneText,
                                          !.csr = Strip(new_csr)]]

\* ChronyCharm._renew_certificate
_renew_certificate(w, cfg) ==
    LET old_csr == w.keychain.csr
        new_csr == generate_csr(_get_server_name(cfg), w.next_id)
        creation == ~Truthy(old_csr)
    IN IF _get_server_name(cfg) = None
       THEN [w EXCEPT !.error = "AssertionError"]
       ELSE
       [w EXCEPT
          !.renewed = TRUE,
          !.next_id = w.next_id + 1,
          !.requests = w.requests \o
              <<IF creation THEN CreationRequest(new_csr) ELSE RenewalRequest(old_csr, new_csr)>>,
          !.ca_csrs = IF creation THEN w.ca_csrs \cup {Strip(new_csr)}
                      ELSE (w.ca_csrs \ {old_csr}) \cup {Strip(new_csr)},
          !.ca_certs = IF creation THEN w.ca_certs ELSE w.ca_certs \ {old_csr},
          !.keychain = [w.keychain EXCEPT !.server_name = _get_server_name(cfg),
                                          !.csr = Strip(new_csr)]]

\* _do_renew_certificate renewing only while no CSR is stored
_do_renew_certificate_OnlyWithoutCsr(w, cfg) ==
    IF _get_server_name(cfg) = None \/ Truthy(w.keychain.csr) THEN w
    ELSE _renew_certificate(w, cfg)

\* ChronyCharm._do_renew_certificate
_do_renew_certificate(w, cfg) ==
    IF _get_server_name(cfg) = None THEN w ELSE _renew_certificate(w, cfg)

\* _revoke_certificate clearing the keychain without telling the CA
_revoke_certificate_NoRequest(w) ==
    [w EXCEPT !.revoked = TRUE, !.keychain = clear(w.keychain)]

\* _revoke_certificate sending a revocation request whether a CSR is stored or not
_revoke_certificate_AlwaysRequests(w) ==
    LET csr == w.keychain.csr
    IN [w EXCEPT
          !.revoked = TRUE,
          !.requests = w.requests \o <<RevocationRequest(csr)>>,
          !.ca_csrs = w.ca_csrs \ {csr},
          !.ca_certs = w.ca_certs \ {csr},
          !.keychain = clear(w.keychain)]

\* ChronyCharm._revoke_certificate
_revoke_certificate(w) ==
    LET csr == w.keychain.csr
    IN [w EXCEPT
          !.revoked = TRUE,
          !.requests = IF Truthy(csr) THEN w.requests \o <<RevocationRequest(csr)>>
                       ELSE w.requests,
          !.ca_csrs = IF Truthy(csr) THEN w.ca_csrs \ {csr} ELSE w.ca_csrs,
          !.ca_certs = IF Truthy(csr) THEN w.ca_certs \ {csr} ELSE w.ca_certs,
          !.keychain = clear(w.keychain)]

\* ChronyCharm._get_time_sources without url.strip(): a padded entry is parsed
\* as written and a whitespace-only entry is not dropped
_get_time_sources_NoStrip(cfg) ==
    LET urls == SelectSeq(cfg.sources, LAMBDA u : u # BlankUrl)
    IN [i \in 1..Len(urls) |-> parse_source_url(urls[i])]

\* ChronyCharm._get_time_sources: entries that are blank once stripped are
\* dropped, the rest are stripped and parsed
_get_time_sources(cfg) ==
    LET urls == SelectSeq(cfg.sources, LAMBDA u : StripUrl(u) # BlankUrl)
    IN [i \in 1..Len(urls) |-> parse_source_url(StripUrl(urls[i]))]

\* _get_nts_certificates with the keychain pair ahead of the external pairs
_get_nts_certificates_KeychainFirst(w, cfg, secs) ==
    LET ids == SelectSeq(cfg.nts_certificates, LAMBDA i : i # "")
        certs == [k \in 1..Len(ids) |-> TlsKeyPair(secs[ids[k]].cert, secs[ids[k]].key)]
    IN get_key_pairs(w.keychain) \o certs

\* ChronyCharm._get_nts_certificates
_get_nts_certificates(w, cfg, secs) ==
    LET ids == SelectSeq(cfg.nts_certificates, LAMBDA i : i # "")
        certs == [k \in 1..Len(ids) |-> TlsKeyPair(secs[ids[k]].cert, secs[ids[k]].key)]
    IN certs \o get_key_pairs(w.keychain)

\* the exception _get_nts_certificates raises at the first listed secret that
\* model.get_secret cannot resolve (SecretNotFoundError) or whose content has
\* no "cert" or no "key" entry (KeyError); None when every lookup succeeds
SecretError(cfg, secs) ==
    LET ids == SelectSeq(cfg.nts_certificates, LAMBDA i : i # "")
        Fails(k) == \/ ids[k] \notin DOMAIN secs
                    \/ secs[ids[k]].cert = NoneText
                    \/ secs[ids[k]].key = NoneText
    IN IF \A k \in 1..Len(ids) : ~Fails(k) THEN None
       ELSE LET k == CHOOSE k \in 1..Len(ids) : Fails(k) /\ \A j \in 1..(k - 1) : ~Fails(j)
            IN IF ids[k] \notin DOMAIN secs THEN "SecretNotFoundError" ELSE "KeyError"

\* _configure_chrony without `if not sources: return`: the port follows the
\* credentials and new_config raises "No time sources provided"
_configure_chrony_NoGuard(w, cfg, secs) ==
    LET sources == _get_time_sources(cfg)
        pairs == _get_nts_certificates(w, cfg, secs)
    IN IF \E i \in 1..Len(sources) : ~sources[i].ok
       THEN \* the first entry that does not parse raises
            [w EXCEPT !.error =
                sources[CHOOSE i \in 1..Len(sources) :
                          /\ ~sources[i].ok
                          /\ \A j \in 1..(i - 1) : sources[j].ok].error]
       ELSE IF SecretError(cfg, secs) # None THEN [w EXCEPT !.error = SecretError(cfg, secs)]
       ELSE IF Len(sources) = 0
       THEN [w EXCEPT !.port_4460 = (Len(pairs) > 0), !.error = "ValueError"]
       ELSE \* new_config(sources=..., tls_key_pairs=...).apply(): the arguments
            \* are values, computed once before the call
            CHOOSE r \in
                { apply([a.w EXCEPT !.applied = TRUE,
                                   !.port_4460 = (Len(a.pairs) > 0),
                                   !.sources = a.sources,
                                   !.pairs = a.pairs],
                        a.sources, a.pairs) :
                    a \in {[w |-> w, sources |-> sources, pairs |-> pairs]} } : TRUE

\* _configure_chrony opening tcp/4460 whatever the credentials are
_configure_chrony_PortAlwaysOpen(w, cfg, secs) ==
    LET sources == _get_time_sources(cfg)
        pairs == _get_nts_certificates(w, cfg, secs)
    IN IF \E i \in 1..Len(sources) : ~sources[i].ok
       THEN \* the first entry that does not parse raises
            [w EXCEPT !.error =
                sources[CHOOSE i \in 1..Len(sources) :
                          /\ ~sources[i].ok
                          /\ \A j \in 1..(i - 1) : sources[j].ok].error]
       ELSE IF Len(sources) = 0 THEN w
       ELSE IF SecretError(cfg, secs) # None THEN [w EXCEPT !.error = SecretError(cfg, secs)]
       ELSE \* new_config(sources=..., tls_key_pairs=...).apply(): the arguments
            \* are values, computed once before the call
            CHOOSE r \in
                { apply([a.w EXCEPT !.applied = TRUE,
                                   !.port_4460 = TRUE,
                                   !.sources = a.sources,
                                   !.pairs = a.pairs],
                        a.sources, a.pairs) :
                    a \in {[w |-> w, sources |-> sources, pairs |-> pairs]} } : TRUE

\* ChronyCharm._configure_chrony
_configure_chrony(w, cfg, secs) ==
    LET sources == _get_time_sources(cfg)
        pairs == _get_nts_certificates(w, cfg, secs)
    IN IF \E i \in 1..Len(sources) : ~sources[i].ok
       THEN \* the first entry that does not parse raises
            [w EXCEPT !.error =
                sources[CHOOSE i \in 1..Len(sources) :
                          /\ ~sources[i].ok
                          /\ \A j \in 1..(i - 1) : sources[j].ok].error]
       ELSE IF Len(sources) = 0 THEN w
       ELSE IF SecretError(cfg, secs) # None THEN [w EXCEPT !.error = SecretError(cfg, secs)]
       ELSE \* new_config(sources=..., tls_key_pairs=...).apply(): the arguments
            \* are values, computed once before the call
            CHOOSE r \in
                { apply([a.w EXCEPT !.applied = TRUE,
                                   !.port_4460 = (Len(a.pairs) > 0),
                                   !.sources = a.sources,
                                   !.pairs = a.pairs],
                        a.sources, a.pairs) :
                    a \in {[w |-> w, sources |-> sources, pairs |-> pairs]} } : TRUE


\* ChronyCharm._do_install
_do_install(w) ==
    IF ~Truthy(w.keychain.private_key)
    THEN [w EXCEPT !.keychain.private_key = Strip(Text("key", "", 1, TRUE))]
    ELSE w

\* _on_config_changed entering the issue/renew step without testing the
\* configured server name
_on_config_changed_NoNameCheck(w, cfg, rel, secs) ==
    LET w1 == IF /\ rel
                 /\ \/ Len(get_key_pairs(w.keychain)) = 0
                    \/ w.keychain.server_name # _get_server_name(cfg)
              THEN _renew_certificate(w, cfg)
              ELSE w
        w2 == IF _get_server_name(cfg) = None /\ Truthy(w1.keychain.private_key)
              THEN _revoke_certificate(w1)
              ELSE w1
    IN _configure_chrony(w2, cfg, secs)

\* _on_config_changed revoking the stored CSR before it requests the new one
_on_config_changed_RevokeThenCreate(w, cfg, rel, secs) ==
    LET w1 == IF /\ _get_server_name(cfg) # None
                 /\ rel
                 /\ \/ Len(get_key_pairs(w.keychain)) = 0
                    \/ w.keychain.server_name # _get_server_name(cfg)
              THEN _renew_certificate(_revoke_certificate(w), cfg)
              ELSE w
        w2 == IF _get_server_name(cfg) = None /\ Truthy(w1.keychain.private_key)
              THEN _revoke_certificate(w1)
              ELSE w1
    IN _configure_chrony(w2, cfg, secs)

\* _on_config_changed entering the issue/renew step without testing the relation
_on_config_changed_NoRelationCheck(w, cfg, rel, secs) ==
    LET w1 == IF /\ _get_server_name(cfg) # None
                 /\ \/ Len(get_key_pairs(w.keychain)) = 0
                    \/ w.keychain.server_name # _get_server_name(cfg)
              THEN _renew_certificate(w, cfg)
              ELSE w
        w2 == IF _get_server_name(cfg) = None /\ Truthy(w1.keychain.private_key)
              THEN _revoke_certificate(w1)
              ELSE w1
    IN _configure_chrony(w2, cfg, secs)

\* _on_config_changed renewing whenever a server name and the relation exist
_on_config_changed_AlwaysRenews(w, cfg, rel, secs) ==
    LET w1 == IF _get_server_name(cfg) # None /\ rel
              THEN _renew_certificate(w, cfg)
              ELSE w
        w2 == IF _get_server_name(cfg) = None /\ Truthy(w1.keychain.private_key)
              THEN _revoke_certificate(w1)
              ELSE w1
    IN _configure_chrony(w2, cfg, secs)

\* ChronyCharm._on_config_changed
_on_config_changed(w, cfg, rel, secs) ==
    LET w1 == IF /\ _get_server_name(cfg) # None
                 /\ rel
                 /\ \/ Len(get_key_pairs(w.keychain)) = 0
                    \/ w.keychain.server_name # _get_server_name(cfg)
              THEN _renew_certificate(w, cfg)
              ELSE w
        w2 == IF _get_server_name(cfg) = None /\ Truthy(w1.keychain.private_key)
              THEN _revoke_certificate(w1)
              ELSE w1
    IN _configure_chrony(w2, cfg, secs)

\* `event.secret.id in config["nts-certificates"]`: secret ids have one fixed
\* length, so an id occurs in the setting exactly when it is one of its entries
SecretReferenced(id, cfg) == \E k \in 1..Len(cfg.nts_certificates) : cfg.nts_certificates[k] = id

\* _on_secret_changed reconfiguring for every secret
_on_secret_changed_AnySecret(w, id, cfg, secs) == _configure_chrony(w, cfg, secs)

\* ChronyCharm._on_secret_changed
_on_secret_changed(w, id, cfg, secs) ==
    IF SecretReferenced(id, cfg) THEN _configure_chrony(w, cfg, secs) ELSE w

\* _on_certificates_relation_broken without the re-render
_on_certificates_relation_broken_NoConfigure(w, cfg, secs) ==
    [w EXCEPT !.keychain = clear(w.keychain)]

\* ChronyCharm._on_certificates_relation_broken
_on_certificates_relation_broken(w, cfg, secs) ==
    _configure_chrony([w EXCEPT !.keychain = clear(w.keychain)], cfg, secs)

\* _on_certificate_available without the re-render
_on_certificate_available_NoConfigure(w, cfg, secs) ==
    [w EXCEPT !.keychain.chain = Strip(w.chain)]

\* _on_certificate_available keeping a chain that is already stored
_on_certificate_available_KeepsFirstChain(w, cfg, secs) ==
    _configure_chrony(
        IF Truthy(w.keychain.chain) THEN w ELSE [w EXCEPT !.keychain.chain = Strip(w.chain)],
        cfg, secs)

\* ChronyCharm._on_certificate_available
_on_certificate_available(w, cfg, secs) ==
    _configure_chrony([w EXCEPT !.keychain.chain = Strip(w.chain)], cfg, secs)

\* the chain the CA returns for a CSR, as chain_as_pem() hands it over
Sign(csr) == Text("chain", csr.subject, csr.id, TRUE)

\* ------------------------------------------------------------ unit status
Status(name, message) == [name |-> name, message |-> message]

\* ops.MaintenanceStatus("installing chrony"), set by _do_install
MaintenanceStatus == Status("maintenance", "installing chrony")

\* a hook that raised leaves the unit in the error state
ErrorStatus == Status("error", "hook failed")

\* certificates.get_certificate_signing_requests(unfulfilled_only=True)
get_certificate_signing_requests_unfulfilled(w) == w.ca_csrs \ w.ca_certs

\* _on_collect_unit_status testing the pending certificate request first
_on_collect_unit_status_WaitingFirst(w, cfg, rel) ==
    IF w.error # None \/ \E i \in 1..Len(_get_time_sources(cfg)) : ~_get_time_sources(cfg)[i].ok
    THEN ErrorStatus
    ELSE IF get_certificate_signing_requests_unfulfilled(w) # {}
    THEN Status("waiting", "waiting for new certificate")
    ELSE IF Len(_get_time_sources(cfg)) = 0
    THEN Status("blocked", "no time source configured")
    ELSE IF _get_server_name(cfg) = None /\ rel
    THEN Status("blocked", "server-name is required for nts-certificates integration")
    ELSE Status("active", "")

\* ChronyCharm._on_collect_unit_status, run by the framework at the end of a hook
_on_collect_unit_status(w, cfg, rel) ==
    IF w.error # None \/ \E i \in 1..Len(_get_time_sources(cfg)) : ~_get_time_sources(cfg)[i].ok
    THEN ErrorStatus
    ELSE IF Len(_get_time_sources(cfg)) = 0
    THEN Status("blocked", "no time source configured")
    ELSE IF _get_server_name(cfg) = None /\ rel
    THEN Status("blocked", "server-name is required for nts-certificates integration")
    ELSE IF get_certificate_signing_requests_unfulfilled(w) # {}
    THEN Status("waiting", "waiting for new certificate")
    ELSE Status("active", "")

\* ------------------------------------------------------------- actions
Installed == Truthy(keychain.private_key)

\* number of restart signals among the effects of a pass
Restarts(effects) == Cardinality({k \in 1..Len(effects) : effects[k].op = "restart"})

\* this pass and the pass before it both called apply(), with the same sources
\* and the same key pairs
Repeats(w) ==
    last.applied /\ w.applied /\ w.sources = last.sources /\ w.pairs = last.pairs

\* the state w that a finished pass leaves, and the record of the pass; repeat
\* is Repeats, and prior_restarts is then the number of restarts the pass
\* before it signalled
Commit(pass, cfg, rel) ==
  \E w \in {pass} :
    /\ w.next_id <= MaxCsr + 1
    /\ next_id' = w.next_id
    /\ keychain' = w.keychain
    /\ ca_csrs' = w.ca_csrs
    /\ ca_certs' = w.ca_certs
    /\ certs_dir' = w.certs_dir
    /\ config_file' = w.config_file
    /\ port_4460' = w.port_4460
    /\ unit_status' = _on_collect_unit_status(w, cfg, rel)
    /\ last' = [event |-> w.event, chain |-> w.chain, secret |-> w.secret, error |-> w.error,
                renewed |-> w.renewed, revoked |-> w.revoked, applied |-> w.applied,
                requests |-> w.requests, effects |-> w.effects,
                sources |-> w.sources, pairs |-> w.pairs,
                repeat |-> Repeats(w),
                prior_restarts |-> IF Repeats(w) THEN Restarts(last.effects) ELSE 0]

DefaultConfigFile == <<"# Welcome to the chrony configuration file.">>

\* the unit before its first hook: nothing stored, the packaged config file
FreshUnit ==
    /\ relation = FALSE
    /\ keychain = EmptyKeychain
    /\ ca_csrs = {}
    /\ ca_certs = {}
    /\ next_id = 1
    /\ certs_dir = <<>>
    /\ config_file = DefaultConfigFile
    /\ port_4460 = FALSE
    /\ unit_status = MaintenanceStatus
    /\ last = [event |-> "init", chain |-> NoneText, secret |-> "", error |-> None,
               renewed |-> FALSE, revoked |-> FALSE, applied |-> FALSE,
               requests |-> NoRequests, effects |-> NoEffects,
               sources |-> <<>>, pairs |-> <<>>,
               repeat |-> FALSE, prior_restarts |-> 0]

\* the user secrets hold a certificate and a key each
Fresh ==
    /\ secrets \in [SecretIds -> UNION {SecretContents(i) : i \in SecretIds}]
    /\ \A i \in SecretIds : secrets[i] \in SecretContents(i) /\ secrets[i].cert.id = 1
    /\ FreshUnit

Init ==
    /\ config = [sources |-> <<>>, server_name |-> None, nts_certificates |-> <<>>]
    /\ Fresh

\* install hook: the first hook of the unit
Install ==
    /\ ~Installed
    /\ Commit(_do_install(Begin("install", NoneText)), config, relation)
    /\ UNCHANGED <<config, secrets, relation>>

\* upgrade-charm hook
UpgradeCharm ==
    /\ Installed
    /\ Commit(_do_install(Begin("upgrade-charm", NoneText)), config, relation)
    /\ UNCHANGED <<config, secrets, relation>>

\* config-changed hook, the configuration being c, one of cs, when it runs
ConfigChangedTo(cs) ==
    /\ Installed
    /\ \E c \in cs :
        /\ config' = c
        /\ Commit(_on_config_changed(Begin("config-changed", NoneText), c, relation, secrets),
                  c, relation)
    /\ UNCHANGED <<secrets, relation>>

ConfigChanged == ConfigChangedTo(Configs)

\* secret-changed hook for a user secret whose content is now v
SecretChanged ==
    /\ Installed
    /\ \E id \in SecretIds : \E v \in SecretContents(id) :
        LET secs == [secrets EXCEPT ![id] = v]
        IN /\ secrets' = secs
           /\ Commit(_on_secret_changed(
                        [Begin("secret-changed", NoneText) EXCEPT !.secret = id],
                        id, config, secs), config, relation)
    /\ UNCHANGED <<config, relation>>

\* nts-certificates-relation-created hook
RelationCreated ==
    /\ Installed
    /\ ~relation
    /\ relation' = TRUE
    /\ Commit(_do_renew_certificate(Begin("relation-created", NoneText), config), config, TRUE)
    /\ UNCHANGED <<config, secrets>>

\* nts-certificates-relation-broken hook: the relation data goes with the relation
RelationBroken ==
    /\ Installed
    /\ relation
    /\ relation' = FALSE
    /\ Commit(_on_certificates_relation_broken(
                 [Begin("relation-broken", NoneText) EXCEPT !.ca_csrs = {}, !.ca_certs = {}],
                 config, secrets), config, FALSE)
    /\ UNCHANGED <<config, secrets>>

\* certificate-available: the CA answered one of the outstanding CSRs
CertificateAvailable ==
    /\ Installed
    /\ relation
    /\ \E csr \in ca_csrs :
        Commit(_on_certificate_available(
                  [Begin("certificate-available", Sign(csr)) EXCEPT
                      !.ca_certs = ca_certs \cup {csr}],
                  config, secrets), config, relation)
    /\ UNCHANGED <<config, secrets, relation>>

\* certificate-expiring
CertificateExpiring ==
    /\ Installed
    /\ relation
    /\ Commit(_do_renew_certificate(Begin("certificate-expiring", NoneText), config),
              config, relation)
    /\ UNCHANGED <<config, secrets, relation>>

\* certificate-invalidated
CertificateInvalidated ==
    /\ Installed
    /\ relation
    /\ Commit(_do_renew_certificate(Begin("certificate-invalidated", NoneText), config),
              config, relation)
    /\ UNCHANGED <<config, secrets, relation>>

Next ==
    \/ Install
    \/ UpgradeCharm
    \/ ConfigChanged
    \/ SecretChanged
    \/ RelationCreated
    \/ RelationBroken
    \/ CertificateAvailable
    \/ CertificateExpiring
    \/ CertificateInvalidated

Spec == Init /\ [][Next]_vars

\* the certificate lifecycle with a CA that answers: no external secrets, and
\* a certificate-available signal that can arrive does arrive
ConfigsLive ==
    [sources : {<<>>, <<Url("ntp", "example.com", NoPort)>>},
     server_name : ServerNames \cup {None},
     nts_certificates : {<<>>}]

ConfigChangedLive == ConfigChangedTo(ConfigsLive)

NextLive ==
    \/ Install
    \/ UpgradeCharm
    \/ ConfigChangedLive
    \/ RelationCreated
    \/ RelationBroken
    \/ CertificateAvailable
    \/ CertificateExpiring
    \/ CertificateInvalidated

SpecLive == Init /\ [][NextLive]_vars /\ WF_vars(CertificateAvailable)


\* ------------------------------------------------------ the keychain alone
\* texts a caller stores in a slot, the empty text among them
SlotTexts == { EmptyText, Text("pem", "", 1, FALSE), Text("pem", "", 2, FALSE) }
SlotNames == { "", "example.com", "example.net" }

\* one setter call; the record of the call names the setter and the value
SetPrivateKey ==
    /\ \E v \in SlotTexts :
          Commit([Begin("set_private_key", v) EXCEPT !.keychain = set_private_key(keychain, v)],
                 config, relation)
    /\ UNCHANGED <<config, secrets, relation>>

SetServerName ==
    /\ \E v \in SlotNames :
          Commit([Begin("set_server_name", NoneText) EXCEPT
                     !.secret = v, !.keychain = set_server_name(keychain, v)],
                 config, relation)
    /\ UNCHANGED <<config, secrets, relation>>

SetCsr ==
    /\ \E v \in SlotTexts :
          Commit([Begin("set_csr", v) EXCEPT !.keychain = set_csr(keychain, v)],
                 config, relation)
    /\ UNCHANGED <<config, secrets, relation>>

SetChain ==
    /\ \E v \in SlotTexts :
          Commit([Begin("set_chain", v) EXCEPT !.keychain = set_chain(keychain, v)],
                 config, relation)
    /\ UNCHANGED <<config, secrets, relation>>

NextKeychain == SetPrivateKey \/ SetServerName \/ SetCsr \/ SetChain

SpecKeychain == Init /\ [][NextKeychain]_vars


\* ------------------------------------------------ the source URL grammar
\* the query options a source URL of the model carries: a flag in every
\* spelling pydantic takes as a boolean and one it does not, an integer, a
\* float and a text option, a name that is no pool option, and the names the
\* source classes pass as keywords themselves
OptionPairs ==
    { Option("iburst", l) :
        l \in {"true", "True", "TRUE", "1", "false", "False", "FALSE", "0", "test"} }
    \cup { Option("minpoll", "10"), Option("minpoll", "test"), Option("offset", "-0.1"),
           Option("key", "TRUE"), Option("foobar", "123"), Option("host", "example.net"),
           Option("port", "123") }

Queries == UNION { [1..n -> OptionPairs] : n \in 0..MaxOpts }

\* every query on a URL without a port and on one with a port of its own, the
\* queries of at most one option on the other ports, the queries that set the
\* pool option nts, and the URLs without a usable scheme or host
ParseUrls ==
    { UrlQuery(b[1], "example.com", b[2], q) :
        b \in {<<"ntp", NoPort>>, <<"nts", 4461>>}, q \in Queries }
    \cup { UrlQuery(b[1], "example.com", b[2], q) :
        b \in {<<"ntp", 123>>, <<"ntp", 1234>>, <<"nts", NoPort>>, <<"nts", 4460>>},
        q \in {<<>>} \cup { <<o>> : o \in OptionPairs } }
    \cup { UrlQuery(b[1], "example.com", b[2], q) :
        b \in {<<"ntp", NoPort>>, <<"nts", NoPort>>, <<"nts", 4461>>},
        q \in {<<Option("nts", "true")>>, <<Option("nts", "false")>>,
               <<Option("offset", "-0.1"), Option("nts", "1")>>} }
    \cup { Url("https", "example.com", NoPort), Url("ntp", "", NoPort), Url("nts", "", NoPort) }

\* a unit deployed with one source URL and nothing else configured
ParseConfigs ==
    { [sources |-> <<u>>, server_name |-> None, nts_certificates |-> <<>>] : u \in ParseUrls }

InitParse ==
    /\ config \in ParseConfigs
    /\ Fresh

\* config-changed hook with the configuration as deployed: the URL is parsed
\* and, when accepted, rendered into the config file
ConfigChangedParse == ConfigChangedTo({config})

NextParse == Install \/ ConfigChangedParse

SpecParse == InitParse /\ [][NextParse]_vars


\* ------------------------------------------------------- rejected input
\* secret:a holds a certificate and a key, the content of secret:b has no
\* "key" entry (the entry reads NoneText here), and no secret is named secret:c
RejectSecrets ==
    [i \in SecretIds |->
        IF i = "secret:a"
        THEN [cert |-> Text("cert", i, 1, FALSE), key |-> Text("key", i, 1, FALSE)]
        ELSE [cert |-> Text("cert", i, 1, FALSE), key |-> NoneText]]

\* configurations with a source list that parses and one whose second entry
\* does not, with and without a server name, and with credential references
\* that resolve, that lack a field and that name no secret
ConfigsReject ==
    [sources : { <<Url("ntp", "example.com", NoPort)>>,
                 <<Url("ntp", "example.com", NoPort), Url("https", "example.com", NoPort)>> },
     server_name : {None, "example.com"},
     nts_certificates : { <<>>, <<"secret:a">>, <<"secret:a", "secret:b">>,
                          <<"secret:c", "secret:a">> }]

InitReject ==
    /\ config = [sources |-> <<>>, server_name |-> None, nts_certificates |-> <<>>]
    /\ secrets = RejectSecrets
    /\ FreshUnit

ConfigChangedReject == ConfigChangedTo(ConfigsReject)

NextReject ==
    \/ Install
    \/ ConfigChangedReject
    \/ RelationCreated
    \/ RelationBroken
    \/ CertificateAvailable

SpecReject == InitReject /\ [][NextReject]_vars


\* ------------------------------------------- the store synchronizer alone
\* key pairs a caller hands to write_tls_key_pairs
StorePairs ==
    { TlsKeyPair(Text("cert", "store", c, FALSE), Text("key", "store", k, FALSE)) :
        c \in 1..2, k \in 1..2 }

StoreSeqs == UNION { [1..n -> StorePairs] : n \in 0..MaxPairs }

\* one call Chrony.write_tls_key_pairs(X) on the directory as it is
StoreWrite ==
    /\ \E X \in StoreSeqs :
        LET wr == write_tls_key_pairs(certs_dir, X)
        IN Commit([Begin("write_tls_key_pairs", NoneText) EXCEPT
                      !.certs_dir = wr.dir, !.effects = wr.effects, !.pairs = X],
                  config, relation)
    /\ UNCHANGED <<config, secrets, relation>>

NextStore == StoreWrite

SpecStore == Init /\ [][NextStore]_vars


\* ------------------------------------------- reconciliation with I/O errors
\* every file write_tls_key_pairs can name
AllCertsPaths == { CertsPath(i, x) : i \in 0..(MaxPairs + 1), x \in {"crt", "key"} }

EffectPath(e) == CHOOSE q \in AllCertsPaths : PathStr(q) = e.path


\* the directory after the file operations ops, performed in order
RECURSIVE Replay(_, _)
Replay(dir, ops) ==
    IF Len(ops) = 0 THEN dir
    ELSE LET e == Head(ops)
             d1 == IF e.op = "write" THEN _write_certs_file(dir, EffectPath(e), e.content)
                   ELSE _unlink_certs_file(dir, EffectPath(e))
         IN Replay(d1, Tail(ops))

\* _ChronyConfig.apply raising OSError in its (k+1)-th file operation: the k
\* operations before it are done; the failing one left nothing behind, or,
\* when truncated, left the file it was writing empty
apply_aborted(w, sources, tls_key_pairs, k, truncated) ==
    LET wr == write_tls_key_pairs(w.certs_dir, tls_key_pairs)
        done == SubSeq(wr.effects, 1, k)
        d1 == Replay(w.certs_dir, done)
        in_store == k < Len(wr.effects)
        failing == wr.effects[k + 1]
    IN [w EXCEPT
          !.error = "OSError",
          !.effects = done,
          !.certs_dir =
              IF in_store /\ truncated /\ failing.op = "write"
              THEN _write_certs_file(d1, EffectPath(failing), EmptyText)
              ELSE d1,
          !.config_file = IF ~in_store /\ truncated THEN <<>> ELSE w.config_file]

\* what a pass is asked to put in place: the one-source configuration, and up
\* to MaxPairs key pairs out of two
IntentSources ==
    { _get_time_sources(c) : c \in { x \in Configs : Len(x.sources) = 1 } }

IntentPairs ==
    { TlsKeyPair(Text("cert", "store", c, FALSE), Text("key", "store", c, FALSE)) : c \in 1..2 }

IntentSeqs == UNION { [1..n -> IntentPairs] : n \in 0..MaxPairs }

IntentPass(sources, pairs) ==
    [Begin("apply", NoneText) EXCEPT !.applied = TRUE, !.sources = sources, !.pairs = pairs]

\* one pass new_config(sources, pairs).apply() that meets no I/O error
Reconcile ==
    /\ \E sources \in IntentSources : \E pairs \in IntentSeqs :
          Commit(apply(IntentPass(sources, pairs), sources, pairs), config, relation)
    /\ UNCHANGED <<config, secrets, relation>>

\* one such pass aborted by an I/O error in the store write or the config write
ReconcileAborted ==
    /\ ~UnpackFails(certs_dir)
    /\ \E sources \in IntentSources : \E pairs \in IntentSeqs :
          /\ ApplyDiffers(config_file, read_tls_key_pairs(certs_dir),
                          render(sources, pairs), pairs)
          /\ \E k \in 0..Len(write_tls_key_pairs(certs_dir, pairs).effects) :
             \E truncated \in BOOLEAN :
                Commit(apply_aborted(IntentPass(sources, pairs), sources, pairs, k, truncated),
                       config, relation)
    /\ UNCHANGED <<config, secrets, relation>>

NextFail == Reconcile \/ ReconcileAborted

SpecFail == Init /\ [][NextFail]_vars


\* ================================================================ claims
Range(f) == { f[k] : k \in DOMAIN f }

EffectOps(effects) == { effects[k].op : k \in 1..Len(effects) }

\* external pairs in configured order, then the keychain pair if a chain is stored
ExternalPairs(cfg, secs) ==
    LET ids == SelectSeq(cfg.nts_certificates, LAMBDA i : i # "")
    IN [k \in 1..Len(ids) |-> TlsKeyPair(secs[ids[k]].cert, secs[ids[k]].key)]

KeychainPair(kc) == TlsKeyPair(kc.chain, kc.private_key)

AggregatedSet(cfg, secs, kc) ==
    ExternalPairs(cfg, secs) \o (IF kc.chain # NoneText THEN <<KeychainPair(kc)>> ELSE <<>>)

\* at least one time source is configured and every configured source parses
HasSources(cfg) ==
    /\ Len(_get_time_sources(cfg)) > 0
    /\ \A i \in 1..Len(_get_time_sources(cfg)) : _get_time_sources(cfg)[i].ok

\* the config text holds the ntsservercert/ntsserverkey lines of store index idx
HasCertLines(text, idx) ==
    /\ CertLine("ntsservercert", idx, "crt") \in Range(text)
    /\ CertLine("ntsserverkey", idx, "key") \in Range(text)

\* the certificates the config text serves: the content of every store file
\* that one of its ntsservercert lines names
ServedCertificates(dir, text) ==
    { dir[p] : p \in { q \in DOMAIN dir :
                        q.ext = "crt" /\ CertLine("ntsservercert", q.idx, "crt") \in Range(text) } }

\* neither the store nor the config holds the certificate of keychain kc
KeychainPairGone(kc, dir, text) ==
    /\ KeychainPair(kc) \notin Range(read_tls_key_pairs(dir))
    /\ kc.chain \notin { dir[p] : p \in DOMAIN dir }
    /\ kc.chain \notin ServedCertificates(dir, text)

\* C1: after any sequence of write_tls_key_pairs calls from the empty store,
\* read_tls_key_pairs returns exactly the sequence written last (same length,
\* order and content, the empty sequence included).
C1_WriteThenRead ==
    last.event = "write_tls_key_pairs" => read_tls_key_pairs(certs_dir) = last.pairs

\* a write that shrank the store to one pair and changed that pair's content
C1_Witness ==
    /\ last.event = "write_tls_key_pairs"
    /\ Len(last.pairs) = 1
    /\ EffectOps(last.effects) = {"write", "unlink"}
    /\ read_tls_key_pairs(certs_dir) = last.pairs

\* C2 (as stated): two consecutive apply() calls with identical sources and key
\* pairs signal exactly one restart in total, and the second call has no effect.
C2_ExactlyOneRestart ==
    last.repeat =>
        /\ last.prior_restarts + Restarts(last.effects) = 1
        /\ last.effects = NoEffects

\* C2 (amended): of two consecutive apply() calls with identical sources and key
\* pairs the second writes no config, writes or deletes no certificate file and
\* signals no restart; the two calls signal at most one restart in total, the
\* one of the first call when it found a difference.
C2_SecondApplyNoOp ==
    last.repeat =>
        /\ last.effects = NoEffects
        /\ last.prior_restarts + Restarts(last.effects) <= 1
        /\ config_file = render(last.sources, last.pairs)
        /\ read_tls_key_pairs(certs_dir) = last.pairs

\* the second of two identical apply() calls, the first of which restarted
C2_Witness ==
    /\ last.repeat
    /\ last.prior_restarts = 1
    /\ Len(last.pairs) > 0

\* C3: a pass signals a restart exactly when it calls apply() and the rendered
\* config differs from the on-disk config or the desired key pairs differ from
\* read_tls_key_pairs(); no pass signals more than one restart.
C3_RestartIffDiffers ==
    [][ /\ Restarts(last'.effects) <= 1
        /\ (Restarts(last'.effects) = 1) <=>
              /\ last'.applied
              /\ \/ render(last'.sources, last'.pairs) # config_file
                 \/ last'.pairs # read_tls_key_pairs(certs_dir) ]_vars

\* a restart caused by the store alone: the secret's content changed, the
\* rendered config text did not
C3_Witness ==
    /\ last.event = "secret-changed"
    /\ last.applied
    /\ Restarts(last.effects) = 1


\* the passes C4 is about: config-changed, secret-changed for a referenced
\* secret, certificate-available and relation-broken, run to completion
ReconcilingPass ==
    /\ last.error = None
    /\ \/ last.event \in {"config-changed", "certificate-available", "relation-broken"}
       \/ last.event = "secret-changed" /\ SecretReferenced(last.secret, config)

StoreAndConfigMatch ==
    /\ read_tls_key_pairs(certs_dir) = AggregatedSet(config, secrets, keychain)
    /\ config_file = render(_get_time_sources(config), AggregatedSet(config, secrets, keychain))

\* C4 (as stated): at the end of every completed config-changed, referenced
\* secret-changed, certificate-available or relation-broken pass the store
\* equals the aggregated credential set and the on-disk config equals the
\* rendering of the configured sources with that set.
C4_StoreMatchesAggregate ==
    ReconcilingPass => StoreAndConfigMatch

\* C4 (amended): the same, for passes that run with at least one time source
\* configured.
C4_StoreMatchesAggregateWithSources ==
    (ReconcilingPass /\ HasSources(config)) => StoreAndConfigMatch

\* a relation-broken pass that took the keychain pair out of a store that
\* keeps its external pairs
C4_Witness ==
    /\ last.event = "relation-broken"
    /\ HasSources(config)
    /\ "unlink" \in EffectOps(last.effects)
    /\ Len(read_tls_key_pairs(certs_dir)) = 2
    /\ StoreAndConfigMatch

\* C5: whenever _renew_certificate runs it issues one CA request: a creation
\* request iff the keychain held no CSR before, otherwise a renewal whose
\* predecessor is the CSR held before; afterwards the keychain csr is the newly
\* generated CSR and the keychain server_name is the configured name.
C5_RenewRequestKind ==
    [][ last'.renewed =>
          /\ Len(last'.requests) = 1
          /\ LET r == last'.requests[1]
             IN /\ (r.kind = "creation") <=> (keychain.csr = NoneText)
                /\ keychain.csr # NoneText => (r.kind = "renewal" /\ r.old = keychain.csr)
                /\ r.csr.subject = config'.server_name
                /\ r.csr # keychain.csr
                /\ Strip(r.csr) # keychain.csr
                /\ keychain'.csr = Strip(r.csr)
                /\ keychain'.server_name = config'.server_name ]_vars

\* a renewal whose predecessor was a CSR for another name
C5_Witness ==
    /\ last.renewed
    /\ Len(last.requests) = 1
    /\ last.requests[1].kind = "renewal"
    /\ last.requests[1].old.subject # keychain.server_name
    /\ keychain.csr = Strip(last.requests[1].csr)

\* the stored keychain pair is in the store and the config names its index
KeychainPairServed(kc, dir, text) ==
    /\ Truthy(kc.chain)
    /\ \E i \in 1..Len(read_tls_key_pairs(dir)) :
          /\ read_tls_key_pairs(dir)[i] = KeychainPair(kc)
          /\ HasCertLines(text, i - 1)

\* C6: the issue/renew step leaves the keychain chain and private_key
\* unchanged under every trigger, so a previously signed chain stays in the
\* aggregated set, and stays in the store and the config if it was there.
C6_RenewKeepsChain ==
    [][ last'.renewed =>
          /\ keychain'.chain = keychain.chain
          /\ keychain'.private_key = keychain.private_key
          /\ Truthy(keychain.chain) =>
                KeychainPair(keychain) \in Range(AggregatedSet(config', secrets', keychain'))
          /\ KeychainPairServed(keychain, certs_dir, config_file) =>
                KeychainPairServed(keychain', certs_dir', config_file') ]_vars

\* a renewal in flight while the chain signed for the previous CSR is served
C6_Witness ==
    /\ last.renewed
    /\ Truthy(keychain.chain)
    /\ keychain.chain.id # keychain.csr.id
    /\ KeychainPairServed(keychain, certs_dir, config_file)

\* C7: a config-changed pass with a server name configured and the CA relation
\* present generates a new CSR iff no CSR is stored or the stored server_name
\* differs from the configured name; otherwise it issues no CA request and
\* leaves the keychain csr unchanged.
C7_RenewOnlyWhenNoCsrOrNameDiffers ==
    [][ (last'.event = "config-changed" /\ config'.server_name # None /\ relation) =>
          LET needed == keychain.csr = NoneText \/ keychain.server_name # config'.server_name
          IN /\ last'.renewed <=> needed
             /\ ~needed => (last'.requests = NoRequests /\ keychain'.csr = keychain.csr) ]_vars

\* C8 (as stated): a config-changed pass with no server name configured, a
\* private key present and a CSR stored issues exactly one revocation request
\* naming the stored CSR, leaves server_name, csr and chain absent, and removes
\* the keychain pair from the store and its lines from the config.
C8_UnsetRevokesAndRemoves ==
    [][ (/\ last'.event = "config-changed"
         /\ config'.server_name = None
         /\ Truthy(keychain.private_key)
         /\ Truthy(keychain.csr)) =>
          /\ last'.requests = <<RevocationRequest(keychain.csr)>>
          /\ keychain' = clear(keychain)
          /\ keychain'.server_name = None
          /\ keychain'.csr = NoneText
          /\ keychain'.chain = NoneText
          /\ KeychainPairGone(keychain, certs_dir', config_file') ]_vars

\* C8 (amended): the revocation and the clearing hold as stated; the keychain
\* pair leaves the store and its lines leave the config when the pass runs
\* with at least one time source configured.
C8_UnsetRevokesAndRemovesWithSources ==
    [][ (/\ last'.event = "config-changed"
         /\ config'.server_name = None
         /\ Truthy(keychain.private_key)
         /\ Truthy(keychain.csr)) =>
          /\ last'.requests = <<RevocationRequest(keychain.csr)>>
          /\ keychain'.private_key = keychain.private_key
          /\ keychain'.server_name = None
          /\ keychain'.csr = NoneText
          /\ keychain'.chain = NoneText
          /\ HasSources(config') =>
                KeychainPairGone(keychain, certs_dir', config_file') ]_vars

\* the server name was unset: the CSR is revoked and the pair is unlinked
C8_Witness ==
    /\ last.event = "config-changed"
    /\ last.revoked
    /\ Len(last.requests) = 1
    /\ last.requests[1].kind = "revocation"
    /\ last.applied
    /\ "unlink" \in EffectOps(last.effects)
    /\ keychain.csr = NoneText
    /\ ~HasCertLines(config_file, 0)

\* C9 (as stated): after a relation-broken pass server_name, chain and csr are
\* absent, the private key is unchanged and neither the store nor the config
\* holds the keychain's certificate any more.
C9_BrokenClearsAndRemoves ==
    [][ last'.event = "relation-broken" =>
          /\ keychain'.server_name = None
          /\ keychain'.chain = NoneText
          /\ keychain'.csr = NoneText
          /\ keychain'.private_key = keychain.private_key
          /\ KeychainPairGone(keychain, certs_dir', config_file') ]_vars

\* C9 (amended): the keychain is cleared as stated; the store and the config
\* drop the keychain's certificate when at least one time source is configured.
C9_BrokenClearsAndRemovesWithSources ==
    [][ last'.event = "relation-broken" =>
          /\ keychain'.server_name = None
          /\ keychain'.chain = NoneText
          /\ keychain'.csr = NoneText
          /\ keychain'.private_key = keychain.private_key
          /\ HasSources(config') =>
                KeychainPairGone(keychain, certs_dir', config_file') ]_vars

\* the relation went away while its certificate was the only store entry
C9_Witness ==
    /\ last.event = "relation-broken"
    /\ last.applied
    /\ Len(last.effects) = 4
    /\ certs_dir = <<>>
    /\ keychain.chain = NoneText
    /\ Truthy(keychain.private_key)
    /\ ~HasCertLines(config_file, 0)

\* what C10 says of the state after a certificate-available pass
ChainServedLast ==
    LET store == read_tls_key_pairs(certs_dir)
    IN /\ keychain.chain = Strip(last.chain)
       /\ last.applied
       /\ Len(store) >= 1
       /\ store[Len(store)] = KeychainPair(keychain)
       /\ HasCertLines(config_file, Len(store) - 1)
       /\ Len(ExternalPairs(config, secrets)) = 0 =>
             (Len(store) = 1 /\ DOMAIN certs_dir = {CertsPath(0, "crt"), CertsPath(0, "key")})

\* C10 (as stated): a certificate-available pass stores the received chain and
\* runs apply; afterwards the pair (chain, private_key) is the last store entry
\* and the config has its lines; with no external pairs it is the only entry,
\* at index 0000, also when a later certificate-available replaces it.
C10_AvailableServed ==
    last.event = "certificate-available" => ChainServedLast

\* C10 (amended): the chain is stored in every certificate-available pass; the
\* rest holds when the pass runs with at least one time source configured.
C10_AvailableServedWithSources ==
    last.event = "certificate-available" =>
        /\ keychain.chain = Strip(last.chain)
        /\ HasSources(config) => ChainServedLast

\* a later certificate replaced the only entry in place: 0000.crt rewritten,
\* 0000.key untouched
C10_Witness ==
    /\ last.event = "certificate-available"
    /\ Len(ExternalPairs(config, secrets)) = 0
    /\ Len(last.effects) = 3
    /\ last.effects[1].op = "write"
    /\ last.effects[1].path = PathStr(CertsPath(0, "crt"))
    /\ ChainServedLast

\* the hooks that only run _do_renew_certificate
RenewSignals == {"relation-created", "certificate-expiring", "certificate-invalidated"}

\* C11: on a certificate-expiring, certificate-invalidated or relation-created
\* signal the issue/renew step runs when a server name is configured (one CA
\* request, a new CSR replaces the stored one); with no server name the signal
\* is ignored: no CA request, keychain unchanged, no error.
C11_SignalRenewsIffNamed ==
    [][ last'.event \in RenewSignals =>
          IF config'.server_name # None
          THEN /\ last'.renewed
               /\ Len(last'.requests) = 1
               /\ last'.requests[1].kind \in {"creation", "renewal"}
               /\ last'.requests[1].csr.subject = config'.server_name
               /\ keychain'.csr = Strip(last'.requests[1].csr)
               /\ keychain'.csr # keychain.csr
               /\ ca_csrs' = {keychain'.csr}
          ELSE /\ ~last'.renewed
               /\ last'.requests = NoRequests
               /\ last'.error = None
               /\ keychain' = keychain
               /\ ca_csrs' = ca_csrs ]_vars

\* an expiring signal replaced a CSR that the CA had already answered
C11_Witness ==
    /\ last.event = "certificate-expiring"
    /\ last.renewed
    /\ Len(last.requests) = 1
    /\ last.requests[1].kind = "renewal"
    /\ keychain.chain = Strip(Sign(last.requests[1].old))
    /\ keychain.csr = Strip(last.requests[1].csr)

\* C12: the key pairs handed to the renderer and the store are the external
\* pairs in the order of their references in nts-certificates, followed by the
\* keychain pair exactly when a chain is stored; external pair k sits at store
\* index k (from 0) and the keychain pair at the highest index.
C12_AggregateOrder ==
    last.applied =>
        LET ext == ExternalPairs(config, secrets)
            n == Len(ext)
        IN /\ Len(last.pairs) = n + (IF Truthy(keychain.chain) THEN 1 ELSE 0)
           /\ SubSeq(last.pairs, 1, n) = ext
           /\ Truthy(keychain.chain) => last.pairs[n + 1] = KeychainPair(keychain)
           /\ \A k \in 1..n :
                 /\ certs_dir[CertsPath(k - 1, "crt")] = ext[k].certificate
                 /\ certs_dir[CertsPath(k - 1, "key")] = ext[k].key
           /\ Truthy(keychain.chain) =>
                 /\ certs_dir[CertsPath(n, "crt")] = keychain.chain
                 /\ certs_dir[CertsPath(n, "key")] = keychain.private_key
           /\ \A q \in DOMAIN certs_dir : q.idx < Len(last.pairs)

\* two external pairs at 0000 and 0001, the keychain pair at 0002
C12_Witness ==
    /\ last.applied
    /\ Len(ExternalPairs(config, secrets)) = 2
    /\ Truthy(keychain.chain)
    /\ Len(last.pairs) = 3
    /\ certs_dir[CertsPath(2, "crt")] = keychain.chain
    /\ certs_dir[CertsPath(0, "crt")] = secrets["secret:a"].cert

\* C13: at the end of every pass the keychain csr and server_name are both
\* present or both absent, and a stored CSR was generated with subject equal
\* to the stored server_name.
C13_CsrAndNameTogether ==
    /\ Truthy(keychain.csr) <=> keychain.server_name # None
    /\ Truthy(keychain.csr) => keychain.csr.subject = keychain.server_name

\* the keychain was cleared and then filled again, for another name
C13_Witness ==
    /\ last.renewed
    /\ Len(last.requests) = 1
    /\ last.requests[1].kind = "creation"
    /\ keychain.csr.id > 1
    /\ keychain.csr.subject = keychain.server_name
    /\ keychain.server_name = "example.net"

\* C14: at the end of every pass a stored chain implies a stored csr and
\* server_name; no chain is held once the keychain was cleared.
C14_ChainImpliesCsr ==
    /\ Truthy(keychain.chain) => (Truthy(keychain.csr) /\ keychain.server_name # None)
    /\ (last.revoked \/ last.event = "relation-broken") => keychain.chain = NoneText

\* the server name was unset while a signed chain was in the store
C14_Witness ==
    /\ last.revoked
    /\ "unlink" \in EffectOps(last.effects)
    /\ keychain.chain = NoneText
    /\ keychain.csr = NoneText
    /\ relation

C16_NoAssertionError ==
    /\ last.error # "AssertionError"
    /\ last.renewed => config.server_name # None

\* the issue/renew step entered from config-changed
C16_Witness ==
    /\ last.event = "config-changed"
    /\ last.renewed
    /\ last.error = None
    /\ config.server_name # None

\* what C17 says of the CSRs outstanding with the CA
OutstandingIsKeychainCsr ==
    relation =>
        /\ Cardinality(ca_csrs) <= 1
        /\ Truthy(keychain.csr) => ca_csrs = {keychain.csr}
        /\ ~Truthy(keychain.csr) => ca_csrs = {}

\* C17: while the CA relation exists the CSRs outstanding with the CA are
\* exactly the keychain csr (none when it is absent); a server-name change
\* after a certificate was issued produces exactly one CA request, a renewal
\* whose predecessor is the old CSR.
C17_OneOutstandingCsr ==
    /\ []OutstandingIsKeychainCsr
    /\ [][ (/\ last'.event = "config-changed"
            /\ relation
            /\ Truthy(keychain.chain)
            /\ config'.server_name # None
            /\ config'.server_name # keychain.server_name) =>
              /\ Len(last'.requests) = 1
              /\ last'.requests[1].kind = "renewal"
              /\ last'.requests[1].old = keychain.csr
              /\ last'.requests[1].csr.subject = config'.server_name
              /\ ca_csrs' = {Strip(last'.requests[1].csr)} ]_vars

\* the server name changed while the chain for the old name is stored
C17_Witness ==
    /\ last.event = "config-changed"
    /\ relation
    /\ Len(last.requests) = 1
    /\ last.requests[1].kind = "renewal"
    /\ Truthy(keychain.chain)
    /\ keychain.chain.subject # keychain.server_name
    /\ ca_csrs = {keychain.csr}

\* no entry of the sources setting is a time source
NoTimeSource(cfg) == \A i \in 1..Len(cfg.sources) : cfg.sources[i] = BlankUrl

\* a CSR is outstanding with the CA and the CA has not answered it
RequestPending == \E c \in ca_csrs : c \notin ca_certs

\* C19: the unit status at the end of a hook is blocked when no time source is
\* configured; else blocked when no server name is configured while the CA
\* relation exists; else waiting when a certificate request is unfulfilled;
\* else active; and no such hook raises.
C19_StatusPriority ==
    last.event \notin {"init", "write_tls_key_pairs"} =>
        /\ last.error = None
        /\ unit_status.name \in {"blocked", "waiting", "active"}
        /\ NoTimeSource(config) =>
              unit_status = Status("blocked", "no time source configured")
        /\ (~NoTimeSource(config) /\ config.server_name = None /\ relation) =>
              unit_status =
                  Status("blocked", "server-name is required for nts-certificates integration")
        /\ (~NoTimeSource(config) /\ ~(config.server_name = None /\ relation) /\ RequestPending) =>
              unit_status.name = "waiting"
        /\ (~NoTimeSource(config) /\ ~(config.server_name = None /\ relation) /\ ~RequestPending) =>
              unit_status.name = "active"

\* no time source and a pending request: blocked, not waiting
C19_Witness ==
    /\ NoTimeSource(config)
    /\ relation
    /\ RequestPending
    /\ unit_status = Status("blocked", "no time source configured")

\* time sources and a server name are configured and the CA relation exists
Settled == HasSources(config) /\ config.server_name # None /\ relation

\* the store and the config serve a chain signed for the configured server
\* name, no request is unanswered and the unit is active
ServedForConfiguredName ==
    /\ KeychainPairServed(keychain, certs_dir, config_file)
    /\ keychain.chain.subject = config.server_name
    /\ keychain.chain = Strip(Sign(keychain.csr))
    /\ ~RequestPending
    /\ unit_status.name = "active"

\* C18: if time sources and a server name stay configured, the CA relation
\* stays in place and the CA answers every outstanding CSR, then eventually the
\* store holds the keychain pair with a chain signed for the configured server
\* name, no request is unfulfilled and the unit is active; after a server-name
\* change the chain is the one for the new name.
C18_EventuallyServed ==
    <>[]Settled => []<>ServedForConfiguredName

\* the chain for the new name is served after a server-name change
C18_Witness ==
    /\ Settled
    /\ ServedForConfiguredName
    /\ last.event = "certificate-available"
    /\ keychain.csr.id > 1
    /\ config.server_name = "example.net"
    /\ \E k \in 1..Len(last.effects) :
          last.effects[k].op = "write" /\ last.effects[k].content.subject = "example.net"

\* the pass before was aborted by an I/O error and this pass, for the same
\* sources and key pairs, meets none
RetryAfterAbort ==
    /\ last.error = "OSError"
    /\ last'.event = "apply"
    /\ last'.error # "OSError"
    /\ last'.sources = last.sources
    /\ last'.pairs = last.pairs

\* C20: the pass that follows a pass aborted by an I/O error in the store write
\* or the config write, run for the same intent and meeting no I/O error,
\* completes and leaves the store equal to the desired pairs and the config
\* equal to the desired rendering, with a restart signalled.
C20_NextPassRecovers ==
    [][ RetryAfterAbort =>
          /\ last'.error = None
          /\ ~UnpackFails(certs_dir')
          /\ read_tls_key_pairs(certs_dir') = last'.pairs
          /\ config_file' = render(last'.sources, last'.pairs)
          /\ Restarts(last'.effects) = 1 ]_vars

\* ---------------------------------------------------- source URL claims
\* the URL of the single configured source
ParsedUrl == config.sources[1]

TrueLits == {"true", "True", "TRUE", "1"}
FalseLits == {"false", "False", "FALSE", "0"}

IsFlag(n) == n \in FieldNames /\ FieldTypeOf(n) = "bool"

\* the URL is one the grammar rejects: scheme, host, an option name outside
\* the pool options, or a value that does not convert to the declared type
Rejectable(u) ==
    \/ u.scheme \notin {"ntp", "nts"}
    \/ u.host = ""
    \/ \E n \in QueryNames(u.query) : n \notin FieldNames
    \/ \E n \in QueryNames(u.query) \cap FieldNames :
          /\ FieldTypeOf(n) \in {"int", "float", "bool"}
          /\ Convert(n, QueryValue(u.query, n)) = Invalid

\* C22: parse_source_url raises ValueError and produces no record for every URL
\* whose scheme is not ntp or nts, whose host is empty, that carries an option
\* name outside the pool options, or whose option value does not convert to the
\* declared type.
C22_RejectedWithValueError ==
    (last.event = "config-changed" /\ Rejectable(ParsedUrl))
        => /\ last.error = "ValueError"
           /\ last.sources = <<>>
           /\ ~last.applied

\* what one option adds to the directive
Piece(u, n) ==
    IF n \notin QueryNames(u.query) THEN ""
    ELSE IF IsFlag(n)
    THEN (IF QueryValue(u.query, n) \in TrueLits THEN " " \o n ELSE "")
    ELSE " " \o n \o " " \o Convert(n, QueryValue(u.query, n)).s

\* the directive of an accepted URL of the model, whose options are among
\* iburst, key, minpoll, nts and offset
ExpectedDirective(u) ==
    "pool " \o u.host
        \o (IF u.scheme = "nts" THEN " nts" ELSE "")
        \o (IF u.scheme = "ntp" /\ u.port \notin {NoPort, 123}
            THEN " port " \o ToString(u.port) ELSE "")
        \o (IF u.scheme = "nts" /\ u.port \notin {NoPort, 4460}
            THEN " ntsport " \o ToString(u.port) ELSE "")
        \o Piece(u, "iburst") \o Piece(u, "key") \o Piece(u, "minpoll")
        \o Piece(u, "nts") \o Piece(u, "offset")

\* the option walk visits every pool option once, in lexicographic name order
LexicographicWalk ==
    /\ Range(sorted_fields) = FieldNames
    /\ \A i, j \in 1..Len(sorted_fields) :
          i < j => SeqLess(Chars(sorted_fields[i]), Chars(sorted_fields[j]))

\* C23: for every accepted URL the rendered directive is `pool <host>`, then
\* the port (ntp: ` port <p>` unless absent or 123; nts: ` nts` then
\* ` ntsport <p>` unless absent or 4460), then the options in lexicographic
\* name order, true flags bare, valued options as `name value`, false and
\* absent options omitted.
C23_RenderFormat ==
    /\ LexicographicWalk
    /\ (last.event = "config-changed" /\ last.error = None)
          => config_file[1] = ExpectedDirective(ParsedUrl)

C23_Witness ==
    /\ last.event = "config-changed"
    /\ last.error = None
    /\ ParsedUrl.scheme = "nts"
    /\ ParsedUrl.port = 4461
    /\ ParsedUrl.query = <<Option("minpoll", "10"), Option("iburst", "True")>>
    /\ config_file[1] = "pool example.com nts ntsport 4461 iburst minpoll 10"

\* the value an option has in a URL: a flag is true or false however it is
\* spelled and false when left out, any other option is its literal
OptionValue(u, n) ==
    IF n \notin QueryNames(u.query) THEN (IF IsFlag(n) THEN "false" ELSE "")
    ELSE LET l == QueryValue(u.query, n)
         IN IF IsFlag(n) /\ l \in TrueLits THEN "true"
            ELSE IF IsFlag(n) /\ l \in FalseLits THEN "false"
            ELSE l

SameOptionValues(u, v) ==
    \A n \in QueryNames(u.query) \cup QueryNames(v.query) : OptionValue(u, n) = OptionValue(v, n)

\* the ways to write one option: a flag in any spelling of its value, a false
\* flag also left out
Respell(o) ==
    IF IsFlag(o.name) /\ o.value \in TrueLits
    THEN { <<Option(o.name, l)>> : l \in TrueLits }
    ELSE IF IsFlag(o.name) /\ o.value \in FalseLits
    THEN { <<Option(o.name, l)>> : l \in FalseLits } \cup {<<>>}
    ELSE {<<o>>}

RECURSIVE Respellings(_)
Respellings(q) ==
    IF Len(q) = 0 THEN {<<>>}
    ELSE { h \o t : h \in Respell(Head(q)), t \in Respellings(Tail(q)) }

Reorderings(q) == { [i \in 1..Len(q) |-> q[p[i]]] : p \in Permutations(1..Len(q)) }

\* the URLs with the scheme, host, port and option values of u
Variants(u) ==
    { v \in { [u EXCEPT !.query = r] : r \in UNION { Respellings(p) : p \in Reorderings(u.query) } } :
        SameOptionValues(u, v) }

\* C24: two accepted URLs with the same scheme, host, port and option values,
\* in whatever order the options come and however the boolean values are
\* spelled (a false flag may be left out), render to the same directive.
C24_RenderInvariant ==
    (last.event = "config-changed" /\ last.error = None)
        => \A v \in Variants(ParsedUrl) :
              parse_source_url(v).ok => SourceRender(parse_source_url(v)) = config_file[1]

C24_Witness ==
    /\ last.event = "config-changed"
    /\ last.error = None
    /\ ParsedUrl.query = <<Option("minpoll", "10"), Option("iburst", "TRUE")>>
    /\ UrlQuery(ParsedUrl.scheme, ParsedUrl.host, ParsedUrl.port,
                <<Option("iburst", "1"), Option("minpoll", "10")>>) \in Variants(ParsedUrl)
    /\ config_file[1] = "pool example.com iburst minpoll 10"


\* ---------------------------------------------------- rejected input claims
\* a configured source URL does not parse
ParseFails(cfg) == \E i \in 1..Len(_get_time_sources(cfg)) : ~_get_time_sources(cfg)[i].ok

\* C21: a pass in which a configured source URL fails to parse changes no
\* state: the keychain (csr, server_name, chain), the certificate store and the
\* config file are as before the pass, and no CA request and no restart is
\* issued, whatever else changed in the configuration in the same event.
C21_ParseFailureChangesNothing ==
    [][ (last'.error = "ValueError" /\ ParseFails(config'))
          => /\ keychain'.csr = keychain.csr
             /\ keychain'.server_name = keychain.server_name
             /\ keychain'.chain = keychain.chain
             /\ certs_dir' = certs_dir
             /\ config_file' = config_file
             /\ last'.requests = NoRequests
             /\ Restarts(last'.effects) = 0 ]_vars

\* the configured references that resolve to a content with both fields
WellFormedIds(cfg, secs) ==
    SelectSeq(cfg.nts_certificates,
              LAMBDA i : /\ i \in DOMAIN secs
                         /\ secs[i].cert # NoneText
                         /\ secs[i].key # NoneText)

RemainingPairs(cfg, secs, kc) ==
    [k \in 1..Len(WellFormedIds(cfg, secs)) |->
        TlsKeyPair(secs[WellFormedIds(cfg, secs)[k]].cert, secs[WellFormedIds(cfg, secs)[k]].key)]
    \o get_key_pairs(kc)

\* C27: a malformed credential reference (a secret that cannot be resolved, or
\* a content without the cert or the key field) contributes no pair, and the
\* pass still completes with the remaining pairs applied.
C27_MalformedReferenceSkipped ==
    (/\ last.event = "config-changed"
     /\ ~ParseFails(config)
     /\ SecretError(config, secrets) # None)
        => /\ last.error = None
           /\ last.applied
           /\ last.pairs = RemainingPairs(config, secrets, keychain)
           /\ read_tls_key_pairs(certs_dir) = last.pairs


\* ------------------------------------------------------ sources setting claim
\* the entries of a sources setting, trimmed, the empty ones left out
TrimmedEntries(setting) ==
    LET kept == SelectSeq(setting, LAMBDA u : StripUrl(u) # BlankUrl)
    IN [i \in 1..Len(kept) |-> StripUrl(kept[i])]

\* config-changed replaced the sources setting by one that differs only in
\* whitespace, empty entries or a trailing comma, and changed nothing else
EquivalentSourcesChange ==
    /\ last'.event = "config-changed"
    /\ config'.sources # config.sources
    /\ TrimmedEntries(config'.sources) = TrimmedEntries(config.sources)
    /\ config'.server_name = config.server_name
    /\ config'.nts_certificates = config.nts_certificates

\* C25: the sources setting is split on commas, each entry trimmed and the
\* empty entries discarded before parsing; two settings that differ only by
\* whitespace, empty entries or a trailing comma give the same source list, and
\* changing from one to the other writes no config and signals no restart.
C25_EquivalentSourcesNoRestart ==
    [][ EquivalentSourcesChange
          => /\ _get_time_sources(config') = _get_time_sources(config)
             /\ \A i \in 1..Len(_get_time_sources(config')) :
                   _get_time_sources(config')[i] = parse_source_url(TrimmedEntries(config'.sources)[i])
             /\ last'.error = None
             /\ last'.sources = _get_time_sources(config)
             /\ "write_config" \notin EffectOps(last'.effects)
             /\ Restarts(last'.effects) = 0
             /\ config_file' = config_file ]_vars

C25_Witness ==
    /\ last.event = "config-changed"
    /\ config.sources = <<Padded(Url("ntp", "example.com", NoPort)), BlankUrl, Padded(BlankUrl)>>
    /\ last.sources = <<parse_source_url(Url("ntp", "example.com", NoPort))>>
    /\ last.applied
    /\ last.repeat
    /\ last.prior_restarts = 1
    /\ last.effects = NoEffects


\* ------------------------------------------------------- apply order claim
\* the pass wrote the config text or signalled a restart
AppliedDifference ==
    /\ last'.applied
    /\ EffectOps(last'.effects) \cap {"write_config", "restart"} # {}

\* C28: in an apply() that detects a difference the store write completes,
\* then the config text is written, then the restart is signalled: no restart
\* precedes either write, and when the config is written the store already
\* holds the files the config references.
C28_StoreThenConfigThenRestart ==
    [][ AppliedDifference
          => \A e \in {last'.effects} :
               /\ Len(e) >= 2
               /\ e[Len(e)] = RestartEffect
               /\ e[Len(e) - 1] = WriteConfigEffect
               /\ \A k \in 1..(Len(e) - 2) : e[k].op \in {"write", "unlink"}
               /\ \A store \in {Replay(certs_dir, SubSeq(e, 1, Len(e) - 2))} :
                     /\ store = certs_dir'
                     /\ ~UnpackFails(store)
                     /\ read_tls_key_pairs(store) = last'.pairs
                     /\ config_file' = render(last'.sources, last'.pairs) ]_vars

C28_Witness ==
    /\ last.applied
    /\ Len(last.effects) >= 4
    /\ last.effects[1].op = "write"
    /\ last.effects[Len(last.effects) - 1] = WriteConfigEffect
    /\ last.effects[Len(last.effects)] = RestartEffect
    /\ HasCertLines(config_file, 0)


\* ------------------------------------------------------ config layout claim
\* the config text is the m source directives, a blank line, then for n > 0
\* the directive pairs of store index 0..n-1 in order and a blank line, then
\* the static block; it names no other store index
Layout(text, sources, n) ==
    LET m == Len(sources)
        c == IF n > 0 THEN 2 * n + 1 ELSE 0
    IN /\ Len(text) = m + 1 + c + Len(StaticLines)
       /\ \A i \in 1..m : text[i] = SourceRender(sources[i])
       /\ text[m + 1] = ""
       /\ \A idx \in 0..(n - 1) :
             /\ text[m + 2 + 2 * idx] = CertLine("ntsservercert", idx, "crt")
             /\ text[m + 3 + 2 * idx] = CertLine("ntsserverkey", idx, "key")
       /\ n > 0 => text[m + 2 + 2 * n] = ""
       /\ \A k \in 1..Len(StaticLines) : text[m + 1 + c + k] = StaticLines[k]
       /\ \A idx \in n..(MaxPairs + 2) :
             /\ CertLine("ntsservercert", idx, "crt") \notin Range(text)
             /\ CertLine("ntsserverkey", idx, "key") \notin Range(text)

\* C29: whenever a restart is signalled the on-disk config equals
\* render(sources, pairs) and the store equals pairs; the config holds one
\* ntsservercert/ntsserverkey pair per store index 0..n-1 in index order,
\* between the source directives and the static block and separated from them
\* by one blank line, references no index >= n, and holds none when n = 0.
C29_RestartMeansConsistent ==
    Restarts(last.effects) > 0
        => /\ ~UnpackFails(certs_dir)
           /\ read_tls_key_pairs(certs_dir) = last.pairs
           /\ config_file = render(last.sources, last.pairs)
           /\ Layout(config_file, last.sources, Len(read_tls_key_pairs(certs_dir)))

C29_Witness ==
    /\ Restarts(last.effects) = 1
    /\ Len(read_tls_key_pairs(certs_dir)) = 2
    /\ Len(last.sources) = 2
    /\ config_file[3] = ""
    /\ config_file[4] = "ntsservercert /etc/chrony/certs/0000.crt"
    /\ config_file[8] = ""


\* ------------------------------------------------------- store frame claim
\* the path text of every file of the store
PathStrOf == [p \in AllCertsPaths |-> PathStr(p)]

\* the paths the effects write, and the paths they unlink
WrittenPaths(e) == { e[k].path : k \in { j \in 1..Len(e) : e[j].op = "write" } }
UnlinkedPaths(e) == { e[k].path : k \in { j \in 1..Len(e) : e[j].op = "unlink" } }

\* the content position p.idx of X asks for in the file p
Desired(X, p) == IF p.ext = "crt" THEN X[p.idx + 1].certificate ELSE X[p.idx + 1].key

\* C30: write_tls_key_pairs(X) writes a file only when its position is new or
\* its content differs from the desired content, the certificate file and the
\* key file compared independently; it deletes only the files at positions
\* >= len(X); every other file is neither written nor deleted; with X equal to
\* the current store it performs no write and no deletion.
C30_WritesOnlyDifferences ==
    [][ last'.event = "write_tls_key_pairs"
          => \A e \in {last'.effects} : \A X \in {last'.pairs} :
             \A n \in {Len(read_tls_key_pairs(certs_dir))} :
             \A ws \in {WrittenPaths(e)} : \A us \in {UnlinkedPaths(e)} :
               \* no file is touched twice, and what is written is the desired content
               /\ Len(e) = Cardinality(ws) + Cardinality(us)
               /\ \A k \in 1..Len(e) :
                     e[k].op = "write" => e[k].content = Desired(X, EffectPath(e[k]))
               /\ \A p \in AllCertsPaths :
                     /\ PathStrOf[p] \in ws
                           <=> p.idx < Len(X) /\ (p.idx >= n \/ certs_dir[p] # Desired(X, p))
                     /\ PathStrOf[p] \in us <=> p.idx >= Len(X) /\ p.idx < n
                     /\ (PathStrOf[p] \notin ws /\ PathStrOf[p] \notin us)
                           => /\ (p \in DOMAIN certs_dir') <=> (p \in DOMAIN certs_dir)
                              /\ p \in DOMAIN certs_dir => certs_dir'[p] = certs_dir[p]
               /\ X = read_tls_key_pairs(certs_dir) => e = NoEffects ]_vars

\* a call that rewrote the key file of position 0 and nothing else
C30_Witness ==
    /\ last.event = "write_tls_key_pairs"
    /\ Len(last.pairs) = 2
    /\ Len(last.effects) = 1
    /\ last.effects[1].op = "write"
    /\ last.effects[1].path = "/etc/chrony/certs/0000.key"
    /\ read_tls_key_pairs(certs_dir) = last.pairs


\* ---------------------------------------------------------- keychain claim
\* what the getter of a slot returns
ReadSlot(kc, slot) ==
    CASE slot = "private_key" -> get_private_key(kc)
      [] slot = "server_name" -> get_server_name(kc)
      [] slot = "csr" -> get_csr(kc)
      [] slot = "chain" -> get_chain(kc)

\* the absent value of a slot, and the value the call recorded in l set
NoValue(slot) == IF slot = "server_name" THEN None ELSE NoneText
ValueSet(l, slot) == IF slot = "server_name" THEN l.secret ELSE l.chain

\* C26: each of the four keychain slots reads None until it is first set,
\* reads back exactly the last value set (an empty string is not None), and
\* setting one slot leaves the other three unchanged.
C26_SlotsIndependent ==
    /\ \A slot \in {"private_key", "server_name", "csr", "chain"} :
          ReadSlot(keychain, slot) = NoValue(slot)
    /\ [][ \A slot \in {"private_key", "server_name", "csr", "chain"} :
              IF last'.event = "set_" \o slot
              THEN /\ ReadSlot(keychain', slot) = ValueSet(last', slot)
                   /\ ReadSlot(keychain', slot) # NoValue(slot)
              ELSE ReadSlot(keychain', slot) = ReadSlot(keychain, slot) ]_vars

\* the chain was set to the empty text while other slots hold values
C26_Witness ==
    /\ last.event = "set_chain"
    /\ last.chain = EmptyText
    /\ get_chain(keychain) = EmptyText
    /\ get_csr(keychain) = Text("pem", "", 2, FALSE)
    /\ get_server_name(keychain) = ""
    /\ get_private_key(keychain) = NoneText


\* ------------------------------------------------------ store naming claim
\* the files NNNN.crt and NNNN.key of the positions 0..n-1
NumberedFiles(n) == { CertsPath(i, x) : i \in 0..(n - 1), x \in {"crt", "key"} }

\* C31: after any sequence of completed write_tls_key_pairs calls from the
\* empty store the directory holds exactly 0000.crt, 0000.key, ...,
\* (n-1).crt, (n-1).key for n the length of the sequence written last:
\* zero-based, contiguous, both files at every index, none at an index >= n.
C31_ContiguousNumbering ==
    /\ last.event = "init" => _iter_certs_dir(certs_dir) = {}
    /\ last.event = "write_tls_key_pairs"
          => _iter_certs_dir(certs_dir) = NumberedFiles(Len(last.pairs))

\* a call that shrank the store from two pairs to one
C31_Witness ==
    /\ last.event = "write_tls_key_pairs"
    /\ Len(last.pairs) = 1
    /\ UnlinkedPaths(last.effects) = {"/etc/chrony/certs/0001.crt", "/etc/chrony/certs/0001.key"}
    /\ _iter_certs_dir(certs_dir) = {CertsPath(0, "crt"), CertsPath(0, "key")}


\* ------------------------------------------------------ empty revoke claim
\* the pass runs with no server name configured and no CSR in the keychain
NoNameNoCsr == config'.server_name = None /\ ~Truthy(keychain.csr)

SecretPosition(id, cfg) ==
    LET ids == SelectSeq(cfg.nts_certificates, LAMBDA i : i # "")
    IN CHOOSE k \in 1..Len(ids) : ids[k] = id

\* after the step the store entry at the secret's position is its latest content
StoreHoldsSecret(id) ==
    /\ ~UnpackFails(certs_dir')
    /\ Len(read_tls_key_pairs(certs_dir')) >= SecretPosition(id, config)
    /\ read_tls_key_pairs(certs_dir')[SecretPosition(id, config)]
          = TlsKeyPair(secrets'[id].cert, secrets'[id].key)

\* the step wrote no file, no config, and signalled no restart
NothingWritten ==
    /\ last'.effects = NoEffects
    /\ certs_dir' = certs_dir
    /\ config_file' = config_file

\* C33 (as stated): secret-changed reconfigures only when the secret's id
\* occurs in the nts-certificates setting; then the store entry at the
\* secret's position holds its latest cert and key and a restart is signalled
\* only if the content changed; for any other secret no file is written and no
\* restart is signalled.
C33_SecretChangedReconfigures ==
    [][ last'.event = "secret-changed"
          => IF SecretReferenced(last'.secret, config)
             THEN /\ last'.applied
                  /\ StoreHoldsSecret(last'.secret)
                  /\ Restarts(last'.effects) > 0 => secrets'[last'.secret] # secrets[last'.secret]
             ELSE ~last'.applied /\ NothingWritten ]_vars

\* C33 (amended): the same when at least one time source is configured; with
\* no time source a referenced secret's change writes nothing either.
C33_SecretChangedReconfiguresWithSources ==
    [][ last'.event = "secret-changed"
          => IF SecretReferenced(last'.secret, config) /\ HasSources(config)
             THEN /\ last'.applied
                  /\ StoreHoldsSecret(last'.secret)
                  /\ Restarts(last'.effects) > 0 => secrets'[last'.secret] # secrets[last'.secret]
             ELSE ~last'.applied /\ NothingWritten ]_vars

\* a referenced secret got a new content, which replaced the first store entry
C33_Witness ==
    /\ last.event = "secret-changed"
    /\ last.secret = "secret:a"
    /\ SecretReferenced("secret:a", config)
    /\ HasSources(config)
    /\ Restarts(last.effects) = 1
    /\ secrets["secret:a"].cert.id = 2
    /\ read_tls_key_pairs(certs_dir)[1] = TlsKeyPair(secrets["secret:a"].cert, secrets["secret:a"].key)


\* ------------------------------------------------------- no time source claim
\* C34: when no time source is configured the configure step of any pass
\* changes nothing: config file, certificate store and the tcp/4460 port are
\* as they were, no restart is signalled, and new_config's "No time sources
\* provided" error is never raised.
C34_NoSourcesNoChange ==
    [][ ~HasSources(config')
          => /\ config_file' = config_file
             /\ certs_dir' = certs_dir
             /\ port_4460' = port_4460
             /\ ~last'.applied
             /\ last'.effects = NoEffects
             /\ last'.error = None ]_vars

\* a certificate arrived while no time source is configured: the chain is in
\* the keychain, the store is empty and the port closed
C34_Witness ==
    /\ last.event = "certificate-available"
    /\ ~HasSources(config)
    /\ Truthy(keychain.chain)
    /\ _iter_certs_dir(certs_dir) = {}
    /\ ~port_4460
    /\ config_file = DefaultConfigFile
    /\ last.error = None


\* ------------------------------------------------------- relation claim
\* the pass issued a creation or a renewal request
IssuedOrRenewed ==
    \E k \in 1..Len(last.requests) : last.requests[k].kind \in {"creation", "renewal"}

ChainForConfiguredName ==
    /\ Truthy(keychain.chain)
    /\ config.server_name # None
    /\ keychain.server_name = config.server_name

\* config-changed ran with the configuration and the secrets as they were
SameIntentPass ==
    /\ last'.event = "config-changed"
    /\ config' = config
    /\ secrets' = secrets

\* C36: once a chain is stored for the configured server name, a further
\* config-changed pass with the same sources, server name and external
\* credentials issues no CA request, writes or deletes no file and signals no
\* restart.
C36_QuiescentUnderSameIntent ==
    [][ (ChainForConfiguredName /\ SameIntentPass)
          => /\ last'.requests = NoRequests
             /\ last'.effects = NoEffects
             /\ last'.error = None
             /\ keychain' = keychain
             /\ certs_dir' = certs_dir
             /\ config_file' = config_file ]_vars

\* a second config-changed with the same intent while the certificate is served
C36_Witness ==
    /\ last.event = "config-changed"
    /\ last.repeat
    /\ last.applied
    /\ Truthy(keychain.chain)
    /\ keychain.server_name = config.server_name
    /\ HasCertLines(config_file, 0)
    /\ last.requests = NoRequests
    /\ last.effects = NoEffects


\* ------------------------------------------------------------- port claim
\* C37: after every configure step that runs with at least one time source,
\* tcp port 4460 is open if and only if the aggregated credential set is
\* non-empty, that is, if and only if the certificate store holds at least one
\* pair after the pass.
C37_PortFollowsCredentials ==
    last.applied
        => /\ port_4460 <=> Len(last.pairs) > 0
           /\ port_4460 <=> _iter_certs_dir(certs_dir) # {}
           /\ ~UnpackFails(certs_dir)
           /\ port_4460 <=> Len(read_tls_key_pairs(certs_dir)) > 0

\* the last pair left the store and the port was closed in the same pass
C37_Witness ==
    /\ last.applied
    /\ ~port_4460
    /\ "unlink" \in EffectOps(last.effects)
    /\ _iter_certs_dir(certs_dir) = {}
    /\ last.pairs = <<>>


\* ------------------------------------------------------- keyword claim
\* the parts of the directive of an accepted source, each a keyword or option
\* name followed by its value if it has one
OptionParts(s) ==
    LET fields == SelectSeq(sorted_fields, LAMBDA f : f \in DOMAIN s.options)
    IN [i \in 1..Len(fields) |->
          IF s.options[fields[i]] = Value("bool", "True") THEN <<fields[i]>>
          ELSE <<fields[i], s.options[fields[i]].s>>]

DirectiveParts(s) ==
    (IF s.kind = "nts" THEN << <<"nts">> >> ELSE <<>>)
        \o (IF s.kind = "ntp" /\ s.port \notin {NoPort, 123}
            THEN << <<"port", ToString(s.port)>> >> ELSE <<>>)
        \o (IF s.kind = "nts" /\ s.port \notin {NoPort, 4460}
            THEN << <<"ntsport", ToString(s.port)>> >> ELSE <<>>)
        \o OptionParts(s)

\* the parts written out, a space before each token
RECURSIVE JoinTokens(_)
JoinTokens(parts) ==
    IF Len(parts) = 0 THEN ""
    ELSE (IF Len(Head(parts)) = 1 THEN " " \o Head(parts)[1]
          ELSE " " \o Head(parts)[1] \o " " \o Head(parts)[2])
         \o JoinTokens(Tail(parts))

\* how many parts of the directive are named k
Occurrences(parts, k) == Cardinality({ i \in 1..Len(parts) : parts[i][1] = k })

KeywordNames == {"nts", "port", "ntsport"} \cup FieldNames

\* the parts are the rendered directive read token by token
PartsAreTheDirective ==
    (last.event = "config-changed" /\ last.error = None)
        => \A s \in {parse_source_url(ParsedUrl)} :
              config_file[1] = "pool " \o s.host \o JoinTokens(DirectiveParts(s))

\* C38: in the directive rendered for any accepted source URL every token that
\* names a keyword or option (nts, port, ntsport and each option name) appears
\* at most once, and an nts:// source renders the nts keyword exactly once
\* whatever query options the URL carries.
C38_KeywordsAtMostOnce ==
    (last.event = "config-changed" /\ last.error = None)
        => \A s \in {parse_source_url(ParsedUrl)} :
            \A parts \in {DirectiveParts(s)} :
              /\ config_file[1] = "pool " \o s.host \o JoinTokens(parts)
              /\ \A k \in KeywordNames : Occurrences(parts, k) <= 1
              /\ s.kind = "nts" => Occurrences(parts, "nts") = 1

\* nts://example.com?nts=true is accepted and rendered with the keyword twice
C38_Witness ==
    /\ last.event = "config-changed"
    /\ last.error = None
    /\ ParsedUrl = UrlQuery("nts", "example.com", NoPort, <<Option("nts", "true")>>)
    /\ config_file[1] = "pool example.com nts nts"


====
